---- MODULE Spec2Model ----
(***************************************************************************)
(* Model of the hybrid recipe search engine of fordb/cooking-assistant:    *)
(* RecipeFilter construction and apply_metadata_filters                    *)
(* (src/src/vector/filters.py), and the hybrid search orchestrator with    *)
(* Reciprocal Rank Fusion (VectorRecipeStore.search_recipes_hybrid and     *)
(* _combine_search_results, exercised by src/tests/test_hybrid_search.py). *)
(*                                                                         *)
(* Python strings that the code inspects character by character (lower(),  *)
(* substring tests, int() parsing) are sequences of one-character strings. *)
(* Optional values are records [some, v]; None is [some |-> FALSE].        *)
(***************************************************************************)
EXTENDS Integers, Sequences, FiniteSets, TLC

VARIABLES
    \* ---- RecipeFilter objects (filters.py) ----
    cpc,            \* "idle" | "built" | "raised": position of the construction script
    cargs,          \* the keyword arguments of the last RecipeFilter(...) call
    cobj,           \* the RecipeFilter object that exists, if any (Optional)
    cmuts,          \* number of attribute assignments made on that object
    \* ---- apply_metadata_filters (filters.py) ----
    fpc,            \* "idle" | "called" | "done"
    ffilter,        \* the RecipeFilter handed to apply_metadata_filters (Optional)
    fresults,       \* the search_results argument
    fout,           \* the returned list
    \* ---- hybrid search (store.py, VectorRecipeStore) ----
    pc,             \* "idle" | "retrieving" | "done"
    query,          \* the query string (sequence of characters)
    n_results,      \* requested result count
    filters,        \* the caller's RecipeFilter (Optional)
    sparse_weight,  \* w_sparse, in tenths
    dense_weight,   \* w_dense, in tenths
    sparse_state,   \* "idle" | "pending" | "ok" | "failed": the sparse call
    dense_state,    \* "idle" | "pending" | "ok" | "failed": the dense call
    sparse_results, \* what search_recipes_sparse returned
    dense_results,  \* what search_recipes returned
    sparse_calls,   \* number of invocations of the sparse path in this request
    dense_calls,    \* number of invocations of the dense path in this request
    outcome,        \* "none" | "ok" | "validation_error" | "total_failure"
    fused,          \* the fused ranked list before filtering and truncation
    result,         \* the list returned to the caller
    \* ---- dense search (store.py, VectorRecipeStore.search_recipes) ----
    dpc,            \* "idle" | "done"
    dargs,          \* the arguments n_results and min_similarity (Optional)
    dlimit,         \* n_results after line 180
    dthreshold,     \* min_similarity after line 181, a double
    dembed,         \* "not_called" | "ok" | "error": create_search_embedding
    dstore,         \* "not_called" | "ok" | "error": collection.query
    dhits,          \* the hits collection.query returned
    dout,           \* the list search_recipes returned
    doutcome,       \* "none" | "ok" | "VectorStoreError"
    \* ---- sparse index and search_recipes_sparse (store.py) ----
    sindex,         \* the store's attributes _bm25_index, _bm25_recipes, _bm25_recipe_ids
    sbuild,         \* per builder ("rebuild", "query"): the index build in progress
    sbuilds,        \* number of builds started
    ssearches,      \* number of sparse searches started
    spc,            \* "idle" | "building" | "built" | "reading" | "done": the sparse query
    squery,         \* the query string of the last sparse search
    sn,             \* the n_results of the last sparse search
    sfilters,       \* the filters of the last sparse search (Optional)
    sfound,         \* the _bm25_index attribute the search found when it was called
    sview,          \* the attributes the search read to answer
    sout,           \* the list that search returned
    soutcome,       \* "none" | "ok" | "error"
    \* ---- keyword extraction (keywords.py) ----
    kpc,            \* "idle" | "query" | "corpus": which function was called
    ktext,          \* the query handed to extract_query_keywords
    kkeywords,      \* the list extract_query_keywords returned
    krecipes,       \* the recipes handed to build_recipe_corpus
    kcorpus,        \* the corpus build_recipe_corpus returned
    \* ---- hybrid search: the component searches ----
    sparse_args,    \* the arguments of the last call of search_recipes_sparse
    dense_args,     \* the arguments of the last call of search_recipes
    sparse_ranked,  \* the ids the sparse search ranked, before its filter
    dense_ranked,   \* the ids the dense search ranked, before its filter
    \* ---- VectorRecipeStore: the calls that change the collection (store.py) ----
    apc,            \* "idle", or the name of the last call
    arecipes,       \* the recipes of the last call
    aids,           \* the ids of the last call (generated when not given)
    aembedded,      \* the recipes generate_batch_embeddings returned results for
    astored,        \* the documents collection.add received: id and recipe
    acollection,    \* the documents the collection holds, in insertion order
    acalls,         \* the number of calls made on the stores of the collection
    areturned,      \* the ids add_recipes / add_recipe returned
    aoutcome,       \* "none" | "ok" | "VectorStoreError" | "True" | "False"
    aclear,         \* clear_collection calls between their two requests
    agenerated,     \* the number of distinct ids uuid4 has given so far
    \* ---- UserRecipeCollection: add_user_recipe, delete_user_recipe ----
    ustored,        \* number of recipes in the user's collection
    ucalls,         \* number of add_user_recipe calls started
    upc,            \* per caller: "idle" | "counted" | "done"
    ustart,         \* per caller: the size of the collection when the call began
    ucount,         \* per caller: current_count, what get_user_recipe_count returned
    uoutcome,       \* per caller: "none" | "ok" | "limit_error" | "store_error"
    udeleted,       \* the last delete_user_recipe: "none" | "True" | "error"
    \* ---- validate_filter_ranges and RecipeFilter on the same ranges ----
    rpc,            \* "idle" | "done"
    rargs,          \* the three range arguments, each an Optional pair
    rvalid,         \* "none" | "True" | "raised": validate_filter_ranges
    rctor           \* "none" | "built" | "raised": RecipeFilter(min, max of the ranges)

cvars == <<cpc, cargs, cobj, cmuts>>
fvars == <<fpc, ffilter, fresults, fout>>
hvars == <<pc, query, n_results, filters, sparse_weight, dense_weight,
           sparse_state, dense_state, sparse_results, dense_results,
           sparse_calls, dense_calls, outcome, fused, result>>
dvars == <<dpc, dargs, dlimit, dthreshold, dembed, dstore, dhits, dout, doutcome>>
svars == <<sindex, sbuild, sbuilds, ssearches, spc, squery, sn, sfilters, sfound,
           sview, sout, soutcome>>
kvars == <<kpc, ktext, kkeywords, krecipes, kcorpus>>
tvars == <<sparse_args, dense_args, sparse_ranked, dense_ranked>>
avars == <<apc, acalls, acollection, arecipes, aids, aembedded, astored,
          areturned, aoutcome, aclear, agenerated>>
uvars == <<ustored, ucalls, upc, ustart, ucount, uoutcome, udeleted>>
rvars == <<rpc, rargs, rvalid, rctor>>
xvars == <<kvars, tvars, avars, uvars, rvars>>
vars == <<cvars, fvars, hvars, dvars, svars, xvars>>

(***************************************************************************)
(* Optional values                                                         *)
(***************************************************************************)
NoneI == [some |-> FALSE, v |-> 0]
SomeI(n) == [some |-> TRUE, v |-> n]
NoneS == [some |-> FALSE, v |-> ""]
SomeS(s) == [some |-> TRUE, v |-> s]
NoneL == [some |-> FALSE, v |-> <<>>]
SomeL(l) == [some |-> TRUE, v |-> l]

(***************************************************************************)
(* Strings as character sequences                                          *)
(***************************************************************************)
UpperChars == <<"A","B","C","D","E","F","G","H","I","J","K","L","M",
                "N","O","P","Q","R","S","T","U","V","W","X","Y","Z">>
LowerChars == <<"a","b","c","d","e","f","g","h","i","j","k","l","m",
                "n","o","p","q","r","s","t","u","v","w","x","y","z">>
DigitChars == <<"0","1","2","3","4","5","6","7","8","9">>

\* A character is a one-character string when it is printable ASCII or one of
\* \t \n \r \f, and the string "U+XXXX" of its code point otherwise.  The
\* alphabet of the model is ASCII, U+0080..U+024F, U+2126, U+212A, U+212B,
\* the whitespace characters and the decimal digits of Unicode.

\* U+212A KELVIN SIGN and U+0130 LATIN CAPITAL LETTER I WITH DOT ABOVE, the
\* two characters outside ASCII whose str.lower() holds an ASCII letter
KelvinSign == "U+212A"
CapitalIDot == "U+0130"
CombiningDot == "U+0307"

\* the other characters of the alphabet that str.lower() changes, and what it
\* changes them to (position by position)
NonAsciiUpper ==
    << "U+00C0", "U+00C1", "U+00C2", "U+00C3", "U+00C4", "U+00C5",
      "U+00C6", "U+00C7", "U+00C8", "U+00C9", "U+00CA", "U+00CB",
      "U+00CC", "U+00CD", "U+00CE", "U+00CF", "U+00D0", "U+00D1",
      "U+00D2", "U+00D3", "U+00D4", "U+00D5", "U+00D6", "U+00D8",
      "U+00D9", "U+00DA", "U+00DB", "U+00DC", "U+00DD", "U+00DE",
      "U+0100", "U+0102", "U+0104", "U+0106", "U+0108", "U+010A",
      "U+010C", "U+010E", "U+0110", "U+0112", "U+0114", "U+0116",
      "U+0118", "U+011A", "U+011C", "U+011E", "U+0120", "U+0122",
      "U+0124", "U+0126", "U+0128", "U+012A", "U+012C", "U+012E",
      "U+0132", "U+0134", "U+0136", "U+0139", "U+013B", "U+013D",
      "U+013F", "U+0141", "U+0143", "U+0145", "U+0147", "U+014A",
      "U+014C", "U+014E", "U+0150", "U+0152", "U+0154", "U+0156",
      "U+0158", "U+015A", "U+015C", "U+015E", "U+0160", "U+0162",
      "U+0164", "U+0166", "U+0168", "U+016A", "U+016C", "U+016E",
      "U+0170", "U+0172", "U+0174", "U+0176", "U+0178", "U+0179",
      "U+017B", "U+017D", "U+0181", "U+0182", "U+0184", "U+0186",
      "U+0187", "U+0189", "U+018A", "U+018B", "U+018E", "U+018F",
      "U+0190", "U+0191", "U+0193", "U+0194", "U+0196", "U+0197",
      "U+0198", "U+019C", "U+019D", "U+019F", "U+01A0", "U+01A2",
      "U+01A4", "U+01A6", "U+01A7", "U+01A9", "U+01AC", "U+01AE",
      "U+01AF", "U+01B1", "U+01B2", "U+01B3", "U+01B5", "U+01B7",
      "U+01B8", "U+01BC", "U+01C4", "U+01C5", "U+01C7", "U+01C8",
      "U+01CA", "U+01CB", "U+01CD", "U+01CF", "U+01D1", "U+01D3",
      "U+01D5", "U+01D7", "U+01D9", "U+01DB", "U+01DE", "U+01E0",
      "U+01E2", "U+01E4", "U+01E6", "U+01E8", "U+01EA", "U+01EC",
      "U+01EE", "U+01F1", "U+01F2", "U+01F4", "U+01F6", "U+01F7",
      "U+01F8", "U+01FA", "U+01FC", "U+01FE", "U+0200", "U+0202",
      "U+0204", "U+0206", "U+0208", "U+020A", "U+020C", "U+020E",
      "U+0210", "U+0212", "U+0214", "U+0216", "U+0218", "U+021A",
      "U+021C", "U+021E", "U+0220", "U+0222", "U+0224", "U+0226",
      "U+0228", "U+022A", "U+022C", "U+022E", "U+0230", "U+0232",
      "U+023A", "U+023B", "U+023D", "U+023E", "U+0241", "U+0243",
      "U+0244", "U+0245", "U+0246", "U+0248", "U+024A", "U+024C",
      "U+024E", "U+2126", "U+212B" >>
NonAsciiLower ==
    << "U+00E0", "U+00E1", "U+00E2", "U+00E3", "U+00E4", "U+00E5",
      "U+00E6", "U+00E7", "U+00E8", "U+00E9", "U+00EA", "U+00EB",
      "U+00EC", "U+00ED", "U+00EE", "U+00EF", "U+00F0", "U+00F1",
      "U+00F2", "U+00F3", "U+00F4", "U+00F5", "U+00F6", "U+00F8",
      "U+00F9", "U+00FA", "U+00FB", "U+00FC", "U+00FD", "U+00FE",
      "U+0101", "U+0103", "U+0105", "U+0107", "U+0109", "U+010B",
      "U+010D", "U+010F", "U+0111", "U+0113", "U+0115", "U+0117",
      "U+0119", "U+011B", "U+011D", "U+011F", "U+0121", "U+0123",
      "U+0125", "U+0127", "U+0129", "U+012B", "U+012D", "U+012F",
      "U+0133", "U+0135", "U+0137", "U+013A", "U+013C", "U+013E",
      "U+0140", "U+0142", "U+0144", "U+0146", "U+0148", "U+014B",
      "U+014D", "U+014F", "U+0151", "U+0153", "U+0155", "U+0157",
      "U+0159", "U+015B", "U+015D", "U+015F", "U+0161", "U+0163",
      "U+0165", "U+0167", "U+0169", "U+016B", "U+016D", "U+016F",
      "U+0171", "U+0173", "U+0175", "U+0177", "U+00FF", "U+017A",
      "U+017C", "U+017E", "U+0253", "U+0183", "U+0185", "U+0254",
      "U+0188", "U+0256", "U+0257", "U+018C", "U+01DD", "U+0259",
      "U+025B", "U+0192", "U+0260", "U+0263", "U+0269", "U+0268",
      "U+0199", "U+026F", "U+0272", "U+0275", "U+01A1", "U+01A3",
      "U+01A5", "U+0280", "U+01A8", "U+0283", "U+01AD", "U+0288",
      "U+01B0", "U+028A", "U+028B", "U+01B4", "U+01B6", "U+0292",
      "U+01B9", "U+01BD", "U+01C6", "U+01C6", "U+01C9", "U+01C9",
      "U+01CC", "U+01CC", "U+01CE", "U+01D0", "U+01D2", "U+01D4",
      "U+01D6", "U+01D8", "U+01DA", "U+01DC", "U+01DF", "U+01E1",
      "U+01E3", "U+01E5", "U+01E7", "U+01E9", "U+01EB", "U+01ED",
      "U+01EF", "U+01F3", "U+01F3", "U+01F5", "U+0195", "U+01BF",
      "U+01F9", "U+01FB", "U+01FD", "U+01FF", "U+0201", "U+0203",
      "U+0205", "U+0207", "U+0209", "U+020B", "U+020D", "U+020F",
      "U+0211", "U+0213", "U+0215", "U+0217", "U+0219", "U+021B",
      "U+021D", "U+021F", "U+019E", "U+0223", "U+0225", "U+0227",
      "U+0229", "U+022B", "U+022D", "U+022F", "U+0231", "U+0233",
      "U+2C65", "U+023C", "U+019A", "U+2C66", "U+0242", "U+0180",
      "U+0289", "U+028C", "U+0247", "U+0249", "U+024B", "U+024D",
      "U+024F", "U+03C9", "U+00E5" >>

NonAsciiUpperSet == { NonAsciiUpper[i] : i \in 1..Len(NonAsciiUpper) }
UpperSet == { UpperChars[i] : i \in 1..26 }

\* str.lower() on a one-character string: a string of one or two characters
LowerChar(c) ==
    IF c \in UpperSet
    THEN << LowerChars[CHOOSE i \in 1..26 : UpperChars[i] = c] >>
    ELSE IF c = KelvinSign THEN << "k" >>
    ELSE IF c = CapitalIDot THEN << "i", CombiningDot >>
    ELSE IF c \in NonAsciiUpperSet
    THEN << NonAsciiLower[CHOOSE i \in 1..Len(NonAsciiUpper) : NonAsciiUpper[i] = c] >>
    ELSE << c >>

\* str.lower(): the lower-cased characters in order (a string without U+0130
\* keeps its length)
RECURSIVE LowerConcat(_)
LowerConcat(s) ==
    IF s = <<>> THEN <<>> ELSE LowerChar(Head(s)) \o LowerConcat(Tail(s))
Lower(s) ==
    IF \E i \in 1..Len(s) : s[i] = CapitalIDot
    THEN LowerConcat(s)
    ELSE [i \in 1..Len(s) |-> LowerChar(s[i])[1]]

\* Python's `needle in haystack` on strings: contiguous substring
Contains(haystack, needle) ==
    \E i \in 1..(Len(haystack) - Len(needle) + 1) :
        SubSeq(haystack, i, i + Len(needle) - 1) = needle

\* " ".join(parts)
RECURSIVE JoinSpace(_)
JoinSpace(parts) ==
    IF parts = <<>> THEN <<>>
    ELSE IF Len(parts) = 1 THEN parts[1]
    ELSE parts[1] \o <<" ">> \o JoinSpace(Tail(parts))

\* the characters str.isspace() holds for: what \s matches, what str.split()
\* splits on
WhitespaceChars ==
    { "\t", "\n", "U+000B", "\f", "\r", "U+001C", "U+001D", "U+001E",
      "U+001F", " ", "U+0085", "U+00A0", "U+1680", "U+2000", "U+2001", "U+2002",
      "U+2003", "U+2004", "U+2005", "U+2006", "U+2007", "U+2008", "U+2009", "U+200A",
      "U+2028", "U+2029", "U+202F", "U+205F", "U+3000" }
\* the whitespace int() strips: all of it but U+001C..U+001F
IntStripChars == WhitespaceChars \ {"U+001C", "U+001D", "U+001E", "U+001F"}

\* the decimal digits of Unicode outside ASCII: one row per script, the digits
\* 0 to 9 in order
UnicodeDigits ==
    << <<"U+0660", "U+0661", "U+0662", "U+0663", "U+0664", "U+0665", "U+0666", "U+0667", "U+0668", "U+0669">>,
       <<"U+06F0", "U+06F1", "U+06F2", "U+06F3", "U+06F4", "U+06F5", "U+06F6", "U+06F7", "U+06F8", "U+06F9">>,
       <<"U+07C0", "U+07C1", "U+07C2", "U+07C3", "U+07C4", "U+07C5", "U+07C6", "U+07C7", "U+07C8", "U+07C9">>,
       <<"U+0966", "U+0967", "U+0968", "U+0969", "U+096A", "U+096B", "U+096C", "U+096D", "U+096E", "U+096F">>,
       <<"U+09E6", "U+09E7", "U+09E8", "U+09E9", "U+09EA", "U+09EB", "U+09EC", "U+09ED", "U+09EE", "U+09EF">>,
       <<"U+0A66", "U+0A67", "U+0A68", "U+0A69", "U+0A6A", "U+0A6B", "U+0A6C", "U+0A6D", "U+0A6E", "U+0A6F">>,
       <<"U+0AE6", "U+0AE7", "U+0AE8", "U+0AE9", "U+0AEA", "U+0AEB", "U+0AEC", "U+0AED", "U+0AEE", "U+0AEF">>,
       <<"U+0B66", "U+0B67", "U+0B68", "U+0B69", "U+0B6A", "U+0B6B", "U+0B6C", "U+0B6D", "U+0B6E", "U+0B6F">>,
       <<"U+0BE6", "U+0BE7", "U+0BE8", "U+0BE9", "U+0BEA", "U+0BEB", "U+0BEC", "U+0BED", "U+0BEE", "U+0BEF">>,
       <<"U+0C66", "U+0C67", "U+0C68", "U+0C69", "U+0C6A", "U+0C6B", "U+0C6C", "U+0C6D", "U+0C6E", "U+0C6F">>,
       <<"U+0CE6", "U+0CE7", "U+0CE8", "U+0CE9", "U+0CEA", "U+0CEB", "U+0CEC", "U+0CED", "U+0CEE", "U+0CEF">>,
       <<"U+0D66", "U+0D67", "U+0D68", "U+0D69", "U+0D6A", "U+0D6B", "U+0D6C", "U+0D6D", "U+0D6E", "U+0D6F">>,
       <<"U+0DE6", "U+0DE7", "U+0DE8", "U+0DE9", "U+0DEA", "U+0DEB", "U+0DEC", "U+0DED", "U+0DEE", "U+0DEF">>,
       <<"U+0E50", "U+0E51", "U+0E52", "U+0E53", "U+0E54", "U+0E55", "U+0E56", "U+0E57", "U+0E58", "U+0E59">>,
       <<"U+0ED0", "U+0ED1", "U+0ED2", "U+0ED3", "U+0ED4", "U+0ED5", "U+0ED6", "U+0ED7", "U+0ED8", "U+0ED9">>,
       <<"U+0F20", "U+0F21", "U+0F22", "U+0F23", "U+0F24", "U+0F25", "U+0F26", "U+0F27", "U+0F28", "U+0F29">>,
       <<"U+1040", "U+1041", "U+1042", "U+1043", "U+1044", "U+1045", "U+1046", "U+1047", "U+1048", "U+1049">>,
       <<"U+1090", "U+1091", "U+1092", "U+1093", "U+1094", "U+1095", "U+1096", "U+1097", "U+1098", "U+1099">>,
       <<"U+17E0", "U+17E1", "U+17E2", "U+17E3", "U+17E4", "U+17E5", "U+17E6", "U+17E7", "U+17E8", "U+17E9">>,
       <<"U+1810", "U+1811", "U+1812", "U+1813", "U+1814", "U+1815", "U+1816", "U+1817", "U+1818", "U+1819">>,
       <<"U+1946", "U+1947", "U+1948", "U+1949", "U+194A", "U+194B", "U+194C", "U+194D", "U+194E", "U+194F">>,
       <<"U+19D0", "U+19D1", "U+19D2", "U+19D3", "U+19D4", "U+19D5", "U+19D6", "U+19D7", "U+19D8", "U+19D9">>,
       <<"U+1A80", "U+1A81", "U+1A82", "U+1A83", "U+1A84", "U+1A85", "U+1A86", "U+1A87", "U+1A88", "U+1A89">>,
       <<"U+1A90", "U+1A91", "U+1A92", "U+1A93", "U+1A94", "U+1A95", "U+1A96", "U+1A97", "U+1A98", "U+1A99">>,
       <<"U+1B50", "U+1B51", "U+1B52", "U+1B53", "U+1B54", "U+1B55", "U+1B56", "U+1B57", "U+1B58", "U+1B59">>,
       <<"U+1BB0", "U+1BB1", "U+1BB2", "U+1BB3", "U+1BB4", "U+1BB5", "U+1BB6", "U+1BB7", "U+1BB8", "U+1BB9">>,
       <<"U+1C40", "U+1C41", "U+1C42", "U+1C43", "U+1C44", "U+1C45", "U+1C46", "U+1C47", "U+1C48", "U+1C49">>,
       <<"U+1C50", "U+1C51", "U+1C52", "U+1C53", "U+1C54", "U+1C55", "U+1C56", "U+1C57", "U+1C58", "U+1C59">>,
       <<"U+A620", "U+A621", "U+A622", "U+A623", "U+A624", "U+A625", "U+A626", "U+A627", "U+A628", "U+A629">>,
       <<"U+A8D0", "U+A8D1", "U+A8D2", "U+A8D3", "U+A8D4", "U+A8D5", "U+A8D6", "U+A8D7", "U+A8D8", "U+A8D9">>,
       <<"U+A900", "U+A901", "U+A902", "U+A903", "U+A904", "U+A905", "U+A906", "U+A907", "U+A908", "U+A909">>,
       <<"U+A9D0", "U+A9D1", "U+A9D2", "U+A9D3", "U+A9D4", "U+A9D5", "U+A9D6", "U+A9D7", "U+A9D8", "U+A9D9">>,
       <<"U+A9F0", "U+A9F1", "U+A9F2", "U+A9F3", "U+A9F4", "U+A9F5", "U+A9F6", "U+A9F7", "U+A9F8", "U+A9F9">>,
       <<"U+AA50", "U+AA51", "U+AA52", "U+AA53", "U+AA54", "U+AA55", "U+AA56", "U+AA57", "U+AA58", "U+AA59">>,
       <<"U+ABF0", "U+ABF1", "U+ABF2", "U+ABF3", "U+ABF4", "U+ABF5", "U+ABF6", "U+ABF7", "U+ABF8", "U+ABF9">>,
       <<"U+FF10", "U+FF11", "U+FF12", "U+FF13", "U+FF14", "U+FF15", "U+FF16", "U+FF17", "U+FF18", "U+FF19">>,
       <<"U+104A0", "U+104A1", "U+104A2", "U+104A3", "U+104A4", "U+104A5", "U+104A6", "U+104A7", "U+104A8", "U+104A9">>,
       <<"U+10D30", "U+10D31", "U+10D32", "U+10D33", "U+10D34", "U+10D35", "U+10D36", "U+10D37", "U+10D38", "U+10D39">>,
       <<"U+11066", "U+11067", "U+11068", "U+11069", "U+1106A", "U+1106B", "U+1106C", "U+1106D", "U+1106E", "U+1106F">>,
       <<"U+110F0", "U+110F1", "U+110F2", "U+110F3", "U+110F4", "U+110F5", "U+110F6", "U+110F7", "U+110F8", "U+110F9">>,
       <<"U+11136", "U+11137", "U+11138", "U+11139", "U+1113A", "U+1113B", "U+1113C", "U+1113D", "U+1113E", "U+1113F">>,
       <<"U+111D0", "U+111D1", "U+111D2", "U+111D3", "U+111D4", "U+111D5", "U+111D6", "U+111D7", "U+111D8", "U+111D9">>,
       <<"U+112F0", "U+112F1", "U+112F2", "U+112F3", "U+112F4", "U+112F5", "U+112F6", "U+112F7", "U+112F8", "U+112F9">>,
       <<"U+11450", "U+11451", "U+11452", "U+11453", "U+11454", "U+11455", "U+11456", "U+11457", "U+11458", "U+11459">>,
       <<"U+114D0", "U+114D1", "U+114D2", "U+114D3", "U+114D4", "U+114D5", "U+114D6", "U+114D7", "U+114D8", "U+114D9">>,
       <<"U+11650", "U+11651", "U+11652", "U+11653", "U+11654", "U+11655", "U+11656", "U+11657", "U+11658", "U+11659">>,
       <<"U+116C0", "U+116C1", "U+116C2", "U+116C3", "U+116C4", "U+116C5", "U+116C6", "U+116C7", "U+116C8", "U+116C9">>,
       <<"U+11730", "U+11731", "U+11732", "U+11733", "U+11734", "U+11735", "U+11736", "U+11737", "U+11738", "U+11739">>,
       <<"U+118E0", "U+118E1", "U+118E2", "U+118E3", "U+118E4", "U+118E5", "U+118E6", "U+118E7", "U+118E8", "U+118E9">>,
       <<"U+11950", "U+11951", "U+11952", "U+11953", "U+11954", "U+11955", "U+11956", "U+11957", "U+11958", "U+11959">>,
       <<"U+11C50", "U+11C51", "U+11C52", "U+11C53", "U+11C54", "U+11C55", "U+11C56", "U+11C57", "U+11C58", "U+11C59">>,
       <<"U+11D50", "U+11D51", "U+11D52", "U+11D53", "U+11D54", "U+11D55", "U+11D56", "U+11D57", "U+11D58", "U+11D59">>,
       <<"U+11DA0", "U+11DA1", "U+11DA2", "U+11DA3", "U+11DA4", "U+11DA5", "U+11DA6", "U+11DA7", "U+11DA8", "U+11DA9">>,
       <<"U+16A60", "U+16A61", "U+16A62", "U+16A63", "U+16A64", "U+16A65", "U+16A66", "U+16A67", "U+16A68", "U+16A69">>,
       <<"U+16AC0", "U+16AC1", "U+16AC2", "U+16AC3", "U+16AC4", "U+16AC5", "U+16AC6", "U+16AC7", "U+16AC8", "U+16AC9">>,
       <<"U+16B50", "U+16B51", "U+16B52", "U+16B53", "U+16B54", "U+16B55", "U+16B56", "U+16B57", "U+16B58", "U+16B59">>,
       <<"U+1D7CE", "U+1D7CF", "U+1D7D0", "U+1D7D1", "U+1D7D2", "U+1D7D3", "U+1D7D4", "U+1D7D5", "U+1D7D6", "U+1D7D7">>,
       <<"U+1D7D8", "U+1D7D9", "U+1D7DA", "U+1D7DB", "U+1D7DC", "U+1D7DD", "U+1D7DE", "U+1D7DF", "U+1D7E0", "U+1D7E1">>,
       <<"U+1D7E2", "U+1D7E3", "U+1D7E4", "U+1D7E5", "U+1D7E6", "U+1D7E7", "U+1D7E8", "U+1D7E9", "U+1D7EA", "U+1D7EB">>,
       <<"U+1D7EC", "U+1D7ED", "U+1D7EE", "U+1D7EF", "U+1D7F0", "U+1D7F1", "U+1D7F2", "U+1D7F3", "U+1D7F4", "U+1D7F5">>,
       <<"U+1D7F6", "U+1D7F7", "U+1D7F8", "U+1D7F9", "U+1D7FA", "U+1D7FB", "U+1D7FC", "U+1D7FD", "U+1D7FE", "U+1D7FF">>,
       <<"U+1E140", "U+1E141", "U+1E142", "U+1E143", "U+1E144", "U+1E145", "U+1E146", "U+1E147", "U+1E148", "U+1E149">>,
       <<"U+1E2F0", "U+1E2F1", "U+1E2F2", "U+1E2F3", "U+1E2F4", "U+1E2F5", "U+1E2F6", "U+1E2F7", "U+1E2F8", "U+1E2F9">>,
       <<"U+1E950", "U+1E951", "U+1E952", "U+1E953", "U+1E954", "U+1E955", "U+1E956", "U+1E957", "U+1E958", "U+1E959">>,
       <<"U+1FBF0", "U+1FBF1", "U+1FBF2", "U+1FBF3", "U+1FBF4", "U+1FBF5", "U+1FBF6", "U+1FBF7", "U+1FBF8", "U+1FBF9">> >>

IsDigit(c) ==
    \/ \E i \in 1..10 : DigitChars[i] = c
    \/ \E r \in 1..Len(UnicodeDigits) : \E i \in 1..10 : UnicodeDigits[r][i] = c
DigitVal(c) ==
    IF \E i \in 1..10 : DigitChars[i] = c
    THEN (CHOOSE i \in 1..10 : DigitChars[i] = c) - 1
    ELSE (CHOOSE i \in 1..10 : \E r \in 1..Len(UnicodeDigits) : UnicodeDigits[r][i] = c) - 1

RECURSIVE DigitsVal(_)
DigitsVal(s) ==
    IF s = <<>> THEN 0
    ELSE 10 * DigitsVal(SubSeq(s, 1, Len(s) - 1)) + DigitVal(s[Len(s)])

(***************************************************************************)
(* Configuration (get_vector_config()): the filter settings read by        *)
(* filters.py.                                                             *)
(***************************************************************************)
SUPPORTED_DIFFICULTIES == {"Beginner", "Intermediate", "Advanced"}
MIN_PREP_TIME_FILTER == 0
MAX_PREP_TIME_FILTER == 300
MIN_COOK_TIME_FILTER == 0
MAX_COOK_TIME_FILTER == 480
MIN_SERVINGS_FILTER == 1
MAX_SERVINGS_FILTER == 50
ENABLE_FILTERING == TRUE

S_vegetarian == <<"v","e","g","e","t","a","r","i","a","n">>
S_vegan == <<"v","e","g","a","n">>
S_gluten_free == <<"g","l","u","t","e","n","-","f","r","e","e">>
S_dairy_free == <<"d","a","i","r","y","-","f","r","e","e">>
SUPPORTED_DIETARY_RESTRICTIONS == <<S_vegetarian, S_vegan, S_gluten_free, S_dairy_free>>

S_meat == <<"m","e","a","t">>
S_chicken == <<"c","h","i","c","k","e","n">>
S_beef == <<"b","e","e","f">>
S_cheese == <<"c","h","e","e","s","e">>
S_milk == <<"m","i","l","k">>
S_egg == <<"e","g","g">>
S_butter == <<"b","u","t","t","e","r">>

(***************************************************************************)
(* RecipeFilter (filters.py:19-122)                                        *)
(***************************************************************************)
\* Python truthiness of an Optional[str], Optional[list]
TruthyS(o) == o.some /\ o.v /= ""
TruthyL(o) == o.some /\ o.v /= <<>>

\* The default field values of the dataclass: every field None.
EmptyFilterFields ==
    [difficulty |-> NoneS,
     prep_time_min |-> NoneI, prep_time_max |-> NoneI,
     cook_time_min |-> NoneI, cook_time_max |-> NoneI,
     servings_min |-> NoneI, servings_max |-> NoneI,
     dietary_restrictions |-> NoneL,
     max_total_time |-> NoneI]

\* _validate_range_filter: TRUE iff it raises FilterValidationError
RangeFilterRaises(min_val, max_val, config_min, config_max) ==
    \/ (min_val.some /\ (min_val.v < config_min \/ min_val.v > config_max))
    \/ (max_val.some /\ (max_val.v < config_min \/ max_val.v > config_max))
    \/ (min_val.some /\ max_val.some /\ min_val.v > max_val.v)

\* the difficulty check of _validate_filters: `if self.difficulty and ...`
DifficultyRaises(f) ==
    TruthyS(f.difficulty) /\ f.difficulty.v \notin SUPPORTED_DIFFICULTIES

\* the dietary check: case-insensitive membership in the supported list
SupportedLower == {Lower(SUPPORTED_DIETARY_RESTRICTIONS[i]) :
                      i \in 1..Len(SUPPORTED_DIETARY_RESTRICTIONS)}
DietaryRaises(f) ==
    /\ TruthyL(f.dietary_restrictions)
    /\ \E i \in 1..Len(f.dietary_restrictions.v) :
          Lower(f.dietary_restrictions.v[i]) \notin SupportedLower

MaxTotalTimeRaises(f) ==
    /\ f.max_total_time.some
    /\ \/ f.max_total_time.v < 0
       \/ f.max_total_time.v > MAX_PREP_TIME_FILTER + MAX_COOK_TIME_FILTER

\* _validate_filters: TRUE iff FilterValidationError is raised
ValidateFiltersRaises(f) ==
    \/ DifficultyRaises(f)
    \/ RangeFilterRaises(f.prep_time_min, f.prep_time_max,
                         MIN_PREP_TIME_FILTER, MAX_PREP_TIME_FILTER)
    \/ RangeFilterRaises(f.cook_time_min, f.cook_time_max,
                         MIN_COOK_TIME_FILTER, MAX_COOK_TIME_FILTER)
    \/ RangeFilterRaises(f.servings_min, f.servings_max,
                         MIN_SERVINGS_FILTER, MAX_SERVINGS_FILTER)
    \/ DietaryRaises(f)
    \/ MaxTotalTimeRaises(f)

\* (variant: a filter object always counts as having filters)
has_filtersAlways(f) == TRUE

\* has_filters(): any field is not None
has_filters(f) ==
    \/ f.difficulty.some
    \/ f.prep_time_min.some \/ f.prep_time_max.some
    \/ f.cook_time_min.some \/ f.cook_time_max.some
    \/ f.servings_min.some \/ f.servings_max.some
    \/ f.dietary_restrictions.some
    \/ f.max_total_time.some

\* Optional[RecipeFilter]
NoFilter == [some |-> FALSE, v |-> EmptyFilterFields]
SomeFilter(f) == [some |-> TRUE, v |-> f]

(***************************************************************************)
(* Recipe metadata and search results (types.py:10-13).  A metadata dict   *)
(* is a record with the set `keys` of the keys it holds; the value of a    *)
(* key outside `keys` is not read.  A numeric field holds an int (what     *)
(* types.py declares and the repository writes), a bool, a finite float,   *)
(* a str or None.                                                          *)
(***************************************************************************)
IntV(n) == [k |-> "int", v |-> n, s |-> <<>>]
StrV(s) == [k |-> "str", v |-> 0, s |-> s]
NullV == [k |-> "null", v |-> 0, s |-> <<>>]
\* True/False as 1/0, and a finite float given in tenths
BoolV(b) == [k |-> "bool", v |-> IF b THEN 1 ELSE 0, s |-> <<>>]
FloatV(tenths) == [k |-> "float", v |-> tenths, s |-> <<>>]

EmptyDict ==
    [keys |-> {}, title |-> <<>>, difficulty |-> "",
     prep_time |-> NullV, cook_time |-> NullV, servings |-> NullV,
     ingredients |-> <<>>]

\* Optional[dict]: the value of result.get('metadata') / result.get('recipe')
NoDict == [some |-> FALSE, v |-> EmptyDict]
SomeDict(m) == [some |-> TRUE, v |-> m]
TruthyDict(o) == o.some /\ o.v.keys /= {}

\* metadata.get(key): the value and whether it is not None
Has(m, key) == key \in m.keys
NumField(m, key) ==
    CASE key = "prep_time" -> m.prep_time
      [] key = "cook_time" -> m.cook_time
      [] key = "servings" -> m.servings

\* int(str): surrounding whitespace is stripped, then an optional sign, then
\* decimal digits (of any script) with single underscores allowed between
\* digits.  [ok |-> FALSE] stands for ValueError/TypeError.
RECURSIVE StripLeft(_)
StripLeft(s) ==
    IF s /= <<>> /\ Head(s) \in IntStripChars THEN StripLeft(Tail(s)) ELSE s
RECURSIVE StripRight(_)
StripRight(s) ==
    IF s /= <<>> /\ s[Len(s)] \in IntStripChars
    THEN StripRight(SubSeq(s, 1, Len(s) - 1)) ELSE s
ParseInt(s) ==
    LET t == StripRight(StripLeft(s))
        signed == Len(t) >= 1 /\ t[1] \in {"-", "+"}
        body == IF signed THEN Tail(t) ELSE t
        digits == SelectSeq(body, LAMBDA c : c /= "_")
        wellformed ==
            /\ body /= <<>>
            /\ \A i \in 1..Len(body) :
                   \/ IsDigit(body[i])
                   \/ /\ body[i] = "_"
                      /\ 1 < i /\ i < Len(body)
                      /\ IsDigit(body[i - 1]) /\ IsDigit(body[i + 1])
    IN  IF wellformed
        THEN [ok |-> TRUE,
              v |-> IF signed /\ t[1] = "-" THEN 0 - DigitsVal(digits)
                    ELSE DigitsVal(digits)]
        ELSE [ok |-> FALSE, v |-> 0]

\* int(x): an int is itself, a bool is 0 or 1, a finite float is truncated
\* toward zero, a str is parsed, None raises TypeError
ToInt(x) ==
    CASE x.k = "int" -> [ok |-> TRUE, v |-> x.v]
      [] x.k = "bool" -> [ok |-> TRUE, v |-> x.v]
      [] x.k = "float" -> [ok |-> TRUE,
                           v |-> IF x.v >= 0 THEN x.v \div 10
                                 ELSE 0 - ((0 - x.v) \div 10)]
      [] x.k = "str" -> ParseInt(x.s)
      [] OTHER -> [ok |-> FALSE, v |-> 0]

(***************************************************************************)
(* apply_metadata_filters (filters.py:125-279)                             *)
(***************************************************************************)
\* (variant: only the dense key 'metadata' is read)
ExtractMetadataDenseOnly(r) ==
    IF r.metadata.some THEN r.metadata.v ELSE EmptyDict

\* metadata = result.get('metadata') or result.get('recipe', {})
ExtractMetadata(r) ==
    IF TruthyDict(r.metadata) THEN r.metadata.v
    ELSE IF r.recipe.some THEN r.recipe.v
    ELSE EmptyDict

\* filters.py:168-172
DifficultyFiltered(m, f) ==
    /\ TruthyS(f.difficulty)
    /\ ~(Has(m, "difficulty") /\ m.difficulty = f.difficulty.v)

\* (variant: the bounds are exclusive)
RangeFilteredExclusive(m, key, min_val, max_val) ==
    /\ (min_val.some \/ max_val.some)
    /\ \/ ~Has(m, key)
       \/ NumField(m, key).k = "null"
       \/ LET n == ToInt(NumField(m, key))
          IN  \/ ~n.ok
              \/ (min_val.some /\ n.v <= min_val.v)
              \/ (max_val.some /\ n.v >= max_val.v)

\* filters.py:175-190, 193-208, 211-226: one range filter; TRUE iff the
\* result is skipped
RangeFiltered(m, key, min_val, max_val) ==
    /\ (min_val.some \/ max_val.some)
    /\ \/ ~Has(m, key)
       \/ NumField(m, key).k = "null"
       \/ LET n == ToInt(NumField(m, key))
          IN  \/ ~n.ok
              \/ (min_val.some /\ n.v < min_val.v)
              \/ (max_val.some /\ n.v > max_val.v)

\* filters.py:232-235
RecipeText(m) ==
    JoinSpace(<< Lower(IF Has(m, "title") THEN m.title ELSE <<>>),
                 Lower(JoinSpace(IF Has(m, "ingredients")
                                 THEN m.ingredients ELSE <<>>)) >>)

\* filters.py:238-251: one restriction of the loop
RestrictionMatches(restriction, recipe_text) ==
    LET restriction_lower == Lower(restriction)
    IN  \/ Contains(recipe_text, restriction_lower)
        \/ /\ restriction_lower = S_vegetarian
           /\ ~Contains(recipe_text, S_meat)
           /\ ~Contains(recipe_text, S_chicken)
           /\ ~Contains(recipe_text, S_beef)
        \/ /\ restriction_lower = S_vegan
           /\ \A keyword \in {S_meat, S_chicken, S_beef, S_cheese,
                              S_milk, S_egg, S_butter} :
                 ~Contains(recipe_text, keyword)

\* (variant: every requested restriction must match)
DietaryFilteredAll(m, f) ==
    /\ TruthyL(f.dietary_restrictions)
    /\ \E i \in 1..Len(f.dietary_restrictions.v) :
           ~RestrictionMatches(f.dietary_restrictions.v[i], RecipeText(m))

\* filters.py:229-255
DietaryFiltered(m, f) ==
    /\ TruthyL(f.dietary_restrictions)
    /\ ~\E i \in 1..Len(f.dietary_restrictions.v) :
           RestrictionMatches(f.dietary_restrictions.v[i], RecipeText(m))

\* filters.py:258-269: metadata.get('prep_time', 0), metadata.get('cook_time', 0)
TotalTimeFiltered(m, f) ==
    /\ f.max_total_time.some
    /\ LET p == IF Has(m, "prep_time") THEN ToInt(m.prep_time)
                ELSE [ok |-> TRUE, v |-> 0]
           c == IF Has(m, "cook_time") THEN ToInt(m.cook_time)
                ELSE [ok |-> TRUE, v |-> 0]
       IN  \/ ~p.ok
           \/ ~c.ok
           \/ p.v + c.v > f.max_total_time.v

\* the body of the loop at filters.py:159-272: TRUE iff the result is appended
ResultKept(r, f) ==
    LET metadata == ExtractMetadata(r)
    IN  /\ metadata.keys /= {}
        /\ ~DifficultyFiltered(metadata, f)
        /\ ~RangeFiltered(metadata, "prep_time", f.prep_time_min, f.prep_time_max)
        /\ ~RangeFiltered(metadata, "cook_time", f.cook_time_min, f.cook_time_max)
        /\ ~RangeFiltered(metadata, "servings", f.servings_min, f.servings_max)
        /\ ~DietaryFiltered(metadata, f)
        /\ ~TotalTimeFiltered(metadata, f)

RECURSIVE FilterLoop(_, _, _)
FilterLoop(search_results, f, filtered_results) ==
    IF search_results = <<>> THEN filtered_results
    ELSE FilterLoop(Tail(search_results), f,
                    IF ResultKept(Head(search_results), f)
                    THEN Append(filtered_results, Head(search_results))
                    ELSE filtered_results)

\* apply_metadata_filters(search_results, filters); filters is Optional
apply_metadata_filters(search_results, flt) ==
    IF ~flt.some \/ ~has_filters(flt.v) THEN search_results
    ELSE IF ~ENABLE_FILTERING THEN search_results
    ELSE FilterLoop(search_results, flt.v, <<>>)

(***************************************************************************)
(* Scores.  A Reciprocal Rank Fusion score w / (k + rank) is kept as an    *)
(* exact fraction; weights are given in tenths (5 stands for 0.5), so all  *)
(* fractions are in units of one tenth.                                    *)
(***************************************************************************)
Frac(n, d) == [num |-> n, den |-> d]
FracZero == Frac(0, 1)
FracAdd(a, b) == Frac(a.num * b.den + b.num * a.den, a.den * b.den)
FracEq(a, b) == a.num * b.den = b.num * a.den
FracGt(a, b) == a.num * b.den > b.num * a.den

RRF_K == 60
OVERSAMPLE_FACTOR == 2

(***************************************************************************)
(* The document set held by the store, with the metadata of each recipe.   *)
(***************************************************************************)
AllKeys == {"title", "difficulty", "prep_time", "cook_time", "servings", "ingredients"}
S_rice == <<"r","i","c","e">>
S_curry == <<"c","u","r","r","y">>
S_tofu == <<"t","o","f","u">>

DocIds == {"A", "B", "C"}
DocMeta(d) ==
    CASE d = "A" -> [keys |-> AllKeys,
                     title |-> <<"C","h","i","c","k","e","n"," ","R","i","c","e">>,
                     difficulty |-> "Beginner",
                     prep_time |-> IntV(15), cook_time |-> IntV(12),
                     servings |-> IntV(4),
                     ingredients |-> <<S_rice, S_chicken>>]
      [] d = "B" -> [keys |-> AllKeys,
                     title |-> <<"V","e","g"," ","C","u","r","r","y">>,
                     difficulty |-> "Intermediate",
                     prep_time |-> IntV(20), cook_time |-> IntV(25),
                     servings |-> IntV(4),
                     ingredients |-> <<S_tofu, S_curry>>]
      [] d = "C" -> [keys |-> AllKeys,
                     title |-> <<"C","h","i","c","k","e","n"," ","C","u","r","r","y">>,
                     difficulty |-> "Intermediate",
                     prep_time |-> IntV(25), cook_time |-> IntV(30),
                     servings |-> IntV(6),
                     ingredients |-> <<S_chicken, S_curry>>]

\* One element of the list search_recipes_sparse returns
\* (test_hybrid_search.py:18-37): the BM25 score is positive and the list is
\* in descending score order.
SparseItem(d, score) ==
    [recipe_id |-> d, recipe |-> SomeDict(DocMeta(d)), metadata |-> NoDict,
     score |-> score, search_type |-> "sparse"]

\* One element of the list search_recipes returns (store.py:205-210):
\* similarity in hundredths.
DenseItem(d, similarity) ==
    [id |-> d, similarity |-> similarity, metadata |-> SomeDict(DocMeta(d)),
     recipe |-> NoDict]

(***************************************************************************)
(* Fusion Engine: VectorRecipeStore._combine_search_results                *)
(***************************************************************************)
\* (variant: the rank counted from 0, as enumerate() does by default)
RRFScoreZeroBased(weight, rank) == Frac(weight, RRF_K + rank - 1)

\* rrf contribution of the element at 1-based position `rank` of one list
RRFScore(weight, rank) == Frac(weight, RRF_K + rank)

\* (variant: ids are never looked up, each result gets its own entry)
PositionOfNoLookup(acc, doc) == 0

\* index of document id in the fused accumulator, 0 if absent
PositionOf(acc, doc) ==
    IF \E i \in 1..Len(acc) : acc[i].recipe_id = doc
    THEN CHOOSE i \in 1..Len(acc) : acc[i].recipe_id = doc
    ELSE 0

\* first pass: every sparse result enters the accumulator under its id
RECURSIVE AddSparse(_, _, _, _)
AddSparse(acc, sparse, rank, w_sparse) ==
    IF rank > Len(sparse) THEN acc
    ELSE LET r == sparse[rank]
             entry == [recipe_id |-> r.recipe_id,
                       recipe |-> r.recipe, metadata |-> NoDict,
                       sparse_score |-> r.score, dense_score |-> 0,
                       rrf_sparse |-> RRFScore(w_sparse, rank),
                       rrf_dense |-> FracZero,
                       combined_score |-> RRFScore(w_sparse, rank),
                       search_type |-> "hybrid"]
             at == PositionOf(acc, r.recipe_id)
         IN  AddSparse(IF at = 0 THEN Append(acc, entry)
                       ELSE [acc EXCEPT ![at] = entry],
                       sparse, rank + 1, w_sparse)

\* second pass: a dense result updates the entry of its id or adds one
RECURSIVE AddDense(_, _, _, _)
AddDense(acc, dense, rank, w_dense) ==
    IF rank > Len(dense) THEN acc
    ELSE LET r == dense[rank]
             rrf == RRFScore(w_dense, rank)
             at == PositionOf(acc, r.id)
             fresh == [recipe_id |-> r.id,
                       recipe |-> r.metadata, metadata |-> NoDict,
                       sparse_score |-> 0, dense_score |-> r.similarity,
                       rrf_sparse |-> FracZero,
                       rrf_dense |-> rrf,
                       combined_score |-> rrf,
                       search_type |-> "hybrid"]
         IN  AddDense(IF at = 0 THEN Append(acc, fresh)
                      ELSE [acc EXCEPT ![at] =
                               [@ EXCEPT !.dense_score = r.similarity,
                                         !.rrf_dense = rrf,
                                         !.combined_score = FracAdd(@, rrf)]],
                      dense, rank + 1, w_dense)

\* (variant: an element goes before the elements of equal score)
RECURSIVE InsertByScoreUnstable(_, _)
InsertByScoreUnstable(sorted, x) ==
    IF sorted = <<>> THEN <<x>>
    ELSE IF ~FracGt(Head(sorted).combined_score, x.combined_score)
         THEN <<x>> \o sorted
         ELSE <<Head(sorted)>> \o InsertByScoreUnstable(Tail(sorted), x)

\* stable sort by combined_score, descending: an element goes after every
\* element whose score is not smaller
RECURSIVE InsertByScore(_, _)
InsertByScore(sorted, x) ==
    IF sorted = <<>> THEN <<x>>
    ELSE IF FracGt(x.combined_score, Head(sorted).combined_score)
         THEN <<x>> \o sorted
         ELSE <<Head(sorted)>> \o InsertByScore(Tail(sorted), x)

\* (variant: ascending order, the lowest combined_score first)
RECURSIVE SortByScoreAscending(_, _)
SortByScoreAscending(list, sorted) ==
    IF list = <<>> THEN sorted
    ELSE LET x == Head(list)
             before == SelectSeq(sorted, LAMBDA y :
                           ~FracGt(y.combined_score, x.combined_score))
             after == SelectSeq(sorted, LAMBDA y :
                           FracGt(y.combined_score, x.combined_score))
         IN SortByScoreAscending(Tail(list), before \o <<x>> \o after)

RECURSIVE SortByScore(_, _)
SortByScore(list, sorted) ==
    IF list = <<>> THEN sorted
    ELSE SortByScore(Tail(list), InsertByScore(sorted, Head(list)))

\* the union of both lists in insertion order, before sorting
FuseUnion(sparse, dense, w_sparse, w_dense) ==
    AddDense(AddSparse(<<>>, sparse, 1, w_sparse), dense, 1, w_dense)

\* the fused ranked list, before truncation
FuseRanked(sparse, dense, w_sparse, w_dense) ==
    SortByScore(FuseUnion(sparse, dense, w_sparse, w_dense), <<>>)

\* list[:n]
Truncate(list, n) == SubSeq(list, 1, IF n < Len(list) THEN n ELSE Len(list))

combine_search_results(sparse, dense, w_sparse, w_dense, n) ==
    Truncate(FuseRanked(sparse, dense, w_sparse, w_dense), n)

(***************************************************************************)
(* Bounds of the model                                                     *)
(***************************************************************************)
MaxN == 2            \* largest n_results a caller passes
MaxMutations == 1    \* attribute assignments made on one RecipeFilter
MaxResults == 2      \* length of the list handed to apply_metadata_filters

(***************************************************************************)
(* Hybrid Search Orchestrator: VectorRecipeStore.search_recipes_hybrid     *)
(***************************************************************************)
S_query == <<"r","i","c","e">>
Queries == { <<>>, <<" ">>, <<" ", " ">>, S_query }
Weights == {0, 5, 8}

BeginnerFilter == [EmptyFilterFields EXCEPT !.difficulty = SomeS("Beginner")]
QuickPrepFilter == [EmptyFilterFields EXCEPT !.prep_time_max = SomeI(20)]
HybridFilters == {NoFilter, SomeFilter(BeginnerFilter), SomeFilter(QuickPrepFilter)}

\* ranked id lists without repetition, at most maxlen long
RankedIds(maxlen) ==
    UNION { { ids \in [1..len -> DocIds] :
                \A i, j \in 1..len : i /= j => ids[i] /= ids[j] } :
            len \in 0..(IF maxlen < Cardinality(DocIds) THEN maxlen
                        ELSE Cardinality(DocIds)) }

SparseListOf(ids) == [i \in 1..Len(ids) |-> SparseItem(ids[i], Len(ids) + 1 - i)]
DenseListOf(ids) == [i \in 1..Len(ids) |-> DenseItem(ids[i], 100 - 10 * i)]

\* `not query.strip()`
Blank(q) == \A i \in 1..Len(q) : q[i] = " "

NoCall == [query |-> <<>>, n_results |-> 0, filters |-> NoFilter]

\* (variant: the component searches are asked for n_results candidates)
ComponentArgsNoOversample(q, n, f) ==
    [query |-> q, n_results |-> n, filters |-> f]

\* the arguments both component searches are called with
ComponentArgs(q, n, f) ==
    [query |-> q, n_results |-> n * OVERSAMPLE_FACTOR, filters |-> f]

\* config.py:149
DEFAULT_SEARCH_LIMIT == 10

\* the n_results a caller passes; a caller that passes none gets the default
NResultsArgs == (0..MaxN) \cup {DEFAULT_SEARCH_LIMIT}

HybridInit ==
    /\ pc = "idle"
    /\ query = <<>>
    /\ n_results = 0
    /\ filters = NoFilter
    /\ sparse_weight = 0
    /\ dense_weight = 0
    /\ sparse_state = "idle"
    /\ dense_state = "idle"
    /\ sparse_results = <<>>
    /\ dense_results = <<>>
    /\ sparse_calls = 0
    /\ dense_calls = 0
    /\ outcome = "none"
    /\ fused = <<>>
    /\ result = <<>>
    /\ sparse_args = NoCall
    /\ dense_args = NoCall
    /\ sparse_ranked = <<>>
    /\ dense_ranked = <<>>

\* step 1 of the search rejects an empty or whitespace-only query
RejectsQuery(q, n) == Blank(q)

\* step 1 of the search: what the two checks of the arguments can make of a
\* call.  n_results <= 0 is a validation error and a blank query is answered
\* with an empty list; which check comes first is not stated, so a blank
\* query with n_results <= 0 may end either way.
StepOneOutcomes(q, n) ==
    IF n <= 0 /\ RejectsQuery(q, n) THEN {"validation_error", "ok"}
    ELSE IF n <= 0 THEN {"validation_error"}
    ELSE IF RejectsQuery(q, n) THEN {"ok"}
    ELSE {"none"}

\* step 1 of the search: the checks of the arguments, and otherwise the
\* dispatch of both retrieval calls; `checked` is what the checks gave
HybridSearch(q, n, f, ws, wd, checked) ==
    /\ pc = "idle"
    /\ checked \in StepOneOutcomes(q, n)
    /\ query' = q
    /\ n_results' = n
    /\ filters' = f
    /\ sparse_weight' = ws
    /\ dense_weight' = wd
    /\ outcome' = checked
    /\ IF checked /= "none"
       THEN /\ pc' = "done"
            /\ UNCHANGED <<sparse_state, dense_state, sparse_calls, dense_calls,
                           sparse_args, dense_args>>
       ELSE /\ pc' = "retrieving"
            /\ sparse_state' = "pending"
            /\ dense_state' = "pending"
            /\ sparse_calls' = sparse_calls + 1
            /\ dense_calls' = dense_calls + 1
            /\ sparse_args' = ComponentArgs(q, n, f)
            /\ dense_args' = ComponentArgs(q, n, f)
    /\ UNCHANGED <<sparse_results, dense_results, fused, result,
                   sparse_ranked, dense_ranked>>
    /\ UNCHANGED <<cvars, fvars, dvars, svars, kvars, avars, uvars, rvars>>

\* the sparse call returns: the search ranked at most n_results *
\* OVERSAMPLE_FACTOR candidates and applied the filter it was handed
\* (test_filtering.py:381-409), so the list holds the passing candidates in
\* rank order with the scores they were ranked by
SparseReturns(ids) ==
    /\ pc = "retrieving"
    /\ sparse_state = "pending"
    /\ Len(ids) <= sparse_args.n_results
    /\ sparse_state' = "ok"
    /\ sparse_ranked' = ids
    /\ sparse_results' = apply_metadata_filters(SparseListOf(ids),
                                               sparse_args.filters)
    /\ UNCHANGED <<pc, query, n_results, filters, sparse_weight, dense_weight,
                   dense_state, dense_results, sparse_calls, dense_calls,
                   outcome, fused, result>>
    /\ UNCHANGED <<sparse_args, dense_args, dense_ranked>>
    /\ UNCHANGED <<cvars, fvars, dvars, svars, kvars, avars, uvars, rvars>>

\* the sparse call raises: caught, the path degrades to an empty list
SparseFails ==
    /\ pc = "retrieving"
    /\ sparse_state = "pending"
    /\ sparse_state' = "failed"
    /\ sparse_results' = <<>>
    /\ UNCHANGED <<pc, query, n_results, filters, sparse_weight, dense_weight,
                   dense_state, dense_results, sparse_calls, dense_calls,
                   outcome, fused, result>>
    /\ UNCHANGED <<cvars, fvars, dvars, svars, xvars>>

\* the dense call returns: as the sparse call, with the filter it was handed
\* applied to the hits (test_filtering.py:353-379)
DenseReturns(ids) ==
    /\ pc = "retrieving"
    /\ dense_state = "pending"
    /\ Len(ids) <= dense_args.n_results
    /\ dense_state' = "ok"
    /\ dense_ranked' = ids
    /\ dense_results' = apply_metadata_filters(DenseListOf(ids),
                                              dense_args.filters)
    /\ UNCHANGED <<pc, query, n_results, filters, sparse_weight, dense_weight,
                   sparse_state, sparse_results, sparse_calls, dense_calls,
                   outcome, fused, result>>
    /\ UNCHANGED <<sparse_args, dense_args, sparse_ranked>>
    /\ UNCHANGED <<cvars, fvars, dvars, svars, kvars, avars, uvars, rvars>>

\* the dense call raises (store.py:216-217): caught, the path degrades to
\* an empty list
DenseFails ==
    /\ pc = "retrieving"
    /\ dense_state = "pending"
    /\ dense_state' = "failed"
    /\ dense_results' = <<>>
    /\ UNCHANGED <<pc, query, n_results, filters, sparse_weight, dense_weight,
                   sparse_state, sparse_results, sparse_calls, dense_calls,
                   outcome, fused, result>>
    /\ UNCHANGED <<cvars, fvars, dvars, svars, xvars>>

\* (variant: a failure of either path aborts the request)
OutcomeOfAnyFailureAborts(s_state, d_state) ==
    IF s_state = "failed" \/ d_state = "failed" THEN "total_failure" ELSE "ok"

\* (variant: failures are swallowed even when both paths failed)
OutcomeOfSwallowsAll(s_state, d_state) == "ok"

\* what the search does once both retrieval calls have ended
OutcomeOf(s_state, d_state) ==
    IF s_state = "failed" /\ d_state = "failed" THEN "total_failure" ELSE "ok"

\* steps 3-5: fuse, filter the fused list, truncate
HybridComplete ==
    /\ pc = "retrieving"
    /\ sparse_state \in {"ok", "failed"}
    /\ dense_state \in {"ok", "failed"}
    /\ pc' = "done"
    /\ outcome' = OutcomeOf(sparse_state, dense_state)
    /\ IF OutcomeOf(sparse_state, dense_state) = "ok"
       THEN LET ranked == FuseRanked(sparse_results, dense_results,
                                     sparse_weight, dense_weight)
            IN  /\ fused' = ranked
                /\ result' = Truncate(apply_metadata_filters(ranked, filters),
                                      n_results)
       ELSE UNCHANGED <<fused, result>>
    /\ UNCHANGED <<query, n_results, filters, sparse_weight, dense_weight,
                   sparse_state, dense_state, sparse_results, dense_results,
                   sparse_calls, dense_calls>>
    /\ UNCHANGED <<cvars, fvars, dvars, svars, xvars>>

HybridNext ==
    \/ \E q \in Queries, n \in NResultsArgs, f \in HybridFilters,
          ws \in Weights, wd \in Weights,
          checked \in {"validation_error", "ok", "none"} :
           HybridSearch(q, n, f, ws, wd, checked)
    \/ \E ids \in RankedIds(MaxN * OVERSAMPLE_FACTOR) : SparseReturns(ids)
    \/ SparseFails
    \/ \E ids \in RankedIds(MaxN * OVERSAMPLE_FACTOR) : DenseReturns(ids)
    \/ DenseFails
    \/ HybridComplete

(***************************************************************************)
(* Construction of RecipeFilter objects and assignments to their fields    *)
(***************************************************************************)
S_invalid_diet == <<"k","e","t","o">>
S_Vegan_cap == <<"V","e","g","a","n">>

DifficultyArgs == {NoneS, SomeS(""), SomeS("Beginner"), SomeS("Expert")}
PrepArgs == {NoneI, SomeI(MIN_PREP_TIME_FILTER - 5), SomeI(MIN_PREP_TIME_FILTER),
             SomeI(30), SomeI(60), SomeI(MAX_PREP_TIME_FILTER),
             SomeI(MAX_PREP_TIME_FILTER + 1)}
CookArgs == {NoneI, SomeI(MIN_COOK_TIME_FILTER - 1), SomeI(60), SomeI(120),
             SomeI(MAX_COOK_TIME_FILTER + 1)}
ServingsArgs == {NoneI, SomeI(MIN_SERVINGS_FILTER - 1), SomeI(MIN_SERVINGS_FILTER),
                 SomeI(4), SomeI(8), SomeI(MAX_SERVINGS_FILTER), SomeI(100)}
DietaryArgs == {NoneL, SomeL(<<>>), SomeL(<<S_vegetarian>>), SomeL(<<S_Vegan_cap>>),
                SomeL(<<S_vegetarian, S_invalid_diet>>), SomeL(<<S_invalid_diet>>)}
TotalTimeArgs == {NoneI, SomeI(0 - 1), SomeI(0), SomeI(60),
                  SomeI(MAX_PREP_TIME_FILTER + MAX_COOK_TIME_FILTER),
                  SomeI(MAX_PREP_TIME_FILTER + MAX_COOK_TIME_FILTER + 1)}

\* the keyword arguments tried: one range at a time, and the categorical,
\* list and total-time fields together
CtorArgs ==
    { [EmptyFilterFields EXCEPT !.prep_time_min = a, !.prep_time_max = b] :
        a \in PrepArgs, b \in PrepArgs }
    \cup
    { [EmptyFilterFields EXCEPT !.cook_time_min = a, !.cook_time_max = b] :
        a \in CookArgs, b \in CookArgs }
    \cup
    { [EmptyFilterFields EXCEPT !.servings_min = a, !.servings_max = b] :
        a \in ServingsArgs, b \in ServingsArgs }
    \cup
    { [EmptyFilterFields EXCEPT !.difficulty = d, !.dietary_restrictions = r,
                                !.max_total_time = t] :
        d \in DifficultyArgs, r \in DietaryArgs, t \in TotalTimeArgs }

CtorInit ==
    /\ cpc = "idle"
    /\ cargs = EmptyFilterFields
    /\ cobj = NoFilter
    /\ cmuts = 0

\* RecipeFilter(**args): __init__ stores the arguments, __post_init__ runs
\* _validate_filters; when it raises no object comes into existence
Construct(args) ==
    /\ cpc \in {"idle", "raised"}
    /\ cargs' = args
    /\ cmuts' = 0
    /\ IF ValidateFiltersRaises(args)
       THEN /\ cpc' = "raised"
            /\ cobj' = NoFilter
       ELSE /\ cpc' = "built"
            /\ cobj' = SomeFilter(args)
    /\ UNCHANGED <<fvars, hvars, dvars, svars, xvars>>

\* the values an attribute assignment may store in a field
FieldValues(field) ==
    CASE field = "difficulty" -> DifficultyArgs
      [] field \in {"prep_time_min", "prep_time_max"} -> PrepArgs
      [] field \in {"cook_time_min", "cook_time_max"} -> CookArgs
      [] field \in {"servings_min", "servings_max"} -> ServingsArgs
      [] field = "dietary_restrictions" -> DietaryArgs
      [] field = "max_total_time" -> TotalTimeArgs

\* obj.field = value on an existing RecipeFilter: the dataclass is declared
\* without frozen=True, so the assignment is accepted and nothing validates it
SetField(field, value) ==
    /\ cpc = "built"
    /\ cobj.some
    /\ cmuts < MaxMutations
    /\ cobj' = SomeFilter([cobj.v EXCEPT ![field] = value])
    /\ cmuts' = cmuts + 1
    /\ UNCHANGED <<cpc, cargs>>
    /\ UNCHANGED <<fvars, hvars, dvars, svars, xvars>>

CtorNext ==
    \/ \E args \in CtorArgs : Construct(args)
    \/ \E field \in DOMAIN EmptyFilterFields :
          \E value \in FieldValues(field) : SetField(field, value)

(***************************************************************************)
(* Calls of apply_metadata_filters                                         *)
(***************************************************************************)
FullMeta(title, difficulty, prep, cook, servings, ingredients) ==
    [keys |-> AllKeys, title |-> title, difficulty |-> difficulty,
     prep_time |-> prep, cook_time |-> cook, servings |-> servings,
     ingredients |-> ingredients]

M_beef == FullMeta(<<"B","e","e","f"," ","S","t","e","w">>, "Advanced",
                   IntV(30), IntV(120), IntV(8), <<S_beef, S_egg>>)
M_tofu == FullMeta(<<"T","o","f","u"," ","B","o","w","l">>, "Beginner",
                   IntV(15), IntV(10), IntV(4), <<S_tofu, S_rice>>)
\* title and difficulty and cook_time only (test_filtering.py:329-336)
M_partial == [EmptyDict EXCEPT !.keys = {"title", "difficulty", "cook_time"},
                               !.title = <<"S","o","u","p">>,
                               !.difficulty = "Beginner",
                               !.cook_time = IntV(10)]
\* numeric fields held as strings, ' 2_0' which int() reads as 20 and 'abc'
\* which it rejects; servings None
M_strings == FullMeta(<<"V","e","g","a","n"," ","E","g","g">>, "Intermediate",
                      StrV(<<" ","2","_","0">>), StrV(<<"a","b","c">>), NullV,
                      <<S_milk>>)

\* dense-shaped {'id', 'metadata'}, sparse-shaped {'recipe_id', 'recipe'},
\* a result without metadata, and one whose 'metadata' is an empty dict
SampleResults ==
    { [id |-> "r1", metadata |-> SomeDict(M_beef), recipe |-> NoDict],
      [id |-> "r2", metadata |-> NoDict, recipe |-> SomeDict(M_tofu)],
      [id |-> "r3", metadata |-> NoDict, recipe |-> NoDict],
      [id |-> "r4", metadata |-> SomeDict(M_partial), recipe |-> NoDict],
      [id |-> "r5", metadata |-> SomeDict(M_strings), recipe |-> NoDict],
      [id |-> "r6", metadata |-> SomeDict(EmptyDict), recipe |-> SomeDict(M_tofu)] }

ResultLists == UNION { [1..len -> SampleResults] : len \in 0..MaxResults }

\* filters that RecipeFilter(...) constructs without raising
FilterInputs ==
    {NoFilter} \cup
    { SomeFilter([EmptyFilterFields EXCEPT
                     !.difficulty = d,
                     !.prep_time_min = p[1], !.prep_time_max = p[2],
                     !.cook_time_max = c,
                     !.servings_min = s[1], !.servings_max = s[2],
                     !.max_total_time = t]) :
        d \in {NoneS, SomeS("Beginner")},
        p \in {<<NoneI, NoneI>>, <<NoneI, SomeI(20)>>, <<SomeI(15), SomeI(30)>>},
        c \in {NoneI, SomeI(30)},
        s \in {<<NoneI, NoneI>>, <<SomeI(4), SomeI(8)>>},
        t \in {NoneI, SomeI(50)} } \cup
    { SomeFilter([EmptyFilterFields EXCEPT
                     !.difficulty = d,
                     !.prep_time_min = p[1], !.prep_time_max = p[2],
                     !.dietary_restrictions = r,
                     !.max_total_time = t]) :
        d \in {NoneS, SomeS("Beginner")},
        p \in {<<NoneI, NoneI>>, <<SomeI(15), SomeI(30)>>},
        r \in {SomeL(<<>>), SomeL(<<S_vegetarian>>),
               SomeL(<<S_vegan, S_gluten_free>>)},
        t \in {NoneI, SomeI(50)} }

FilterInit ==
    /\ fpc = "idle"
    /\ ffilter = NoFilter
    /\ fresults = <<>>
    /\ fout = <<>>

FilterCall(f, rs) ==
    /\ fpc = "idle"
    /\ ~(f.some /\ ValidateFiltersRaises(f.v))
    /\ fpc' = "called"
    /\ ffilter' = f
    /\ fresults' = rs
    /\ UNCHANGED fout
    /\ UNCHANGED <<cvars, hvars, dvars, svars, xvars>>

FilterReturn ==
    /\ fpc = "called"
    /\ fpc' = "done"
    /\ fout' = apply_metadata_filters(fresults, ffilter)
    /\ UNCHANGED <<ffilter, fresults>>
    /\ UNCHANGED <<cvars, hvars, dvars, svars, xvars>>

FilterNext ==
    \/ \E f \in FilterInputs, rs \in ResultLists : FilterCall(f, rs)
    \/ FilterReturn

(***************************************************************************)
(* Dense search: VectorRecipeStore.search_recipes (store.py:167-217).      *)
(* Distances and the caller's thresholds are given in hundredths and stand *)
(* for the doubles nearest to them.  The vector store (Chroma) answers a   *)
(* query with at most n_results hits, nearest first, and refuses a query   *)
(* whose n_results is not positive.                                        *)
(***************************************************************************)
SIMILARITY_THRESHOLD == 70

\* A double: [h |-> n, e |-> 0] is the double nearest to n/100, and
\* [h |-> n, e |-> -1] / [h |-> n, e |-> 1] the double that the subtraction
\* 1 - x yields just below / just above it.
Float(n) == [h |-> n, e |-> 0]
\* a < b on doubles
FloatLess(a, b) == a.h < b.h \/ (a.h = b.h /\ a.e < b.e)

\* the k in 0..200 for which 1 - k/100, computed in doubles, is below the
\* double nearest to (100 - k)/100 (1 - 0.9 = 0.09999999999999998)
SubtractionBelow ==
    { 7, 32, 33, 34, 54, 55, 56, 66, 67, 68, 77, 78, 79, 80,
      81, 89, 90, 91, 92, 93, 101, 102, 103, 104, 105, 106, 107, 108,
      109, 110, 111, 112, 129, 130, 131, 132, 133, 134, 135, 136, 137, 157,
      158, 159, 160, 161, 162, 182, 183, 184, 185, 186, 187 }
\* ... and above it (1 - 0.7 = 0.30000000000000004)
SubtractionAbove ==
    { 18, 41, 42, 43, 57, 58, 59, 69, 70, 71, 82, 83, 84, 85,
      94, 95, 96, 97, 98, 99, 113, 114, 115, 116, 117, 118, 119, 120,
      121, 122, 123, 138, 139, 140, 141, 142, 143, 144, 145, 146, 163, 164,
      165, 166, 167, 168, 188, 189, 190, 191, 192, 193 }
\* 1 - x for x the double nearest to k/100
OneMinus(k) ==
    [h |-> 100 - k,
     e |-> IF k \in SubtractionBelow THEN 0 - 1
           ELSE IF k \in SubtractionAbove THEN 1 ELSE 0]

\* n_results = n_results or self.config.DEFAULT_SEARCH_LIMIT
EffectiveLimit(n) ==
    IF n.some /\ n.v /= 0 THEN n.v ELSE DEFAULT_SEARCH_LIMIT

\* (variant: only None is replaced by the default)
EffectiveThresholdNoneOnly(ms) ==
    IF ms.some THEN Float(ms.v) ELSE OneMinus(SIMILARITY_THRESHOLD)

\* min_similarity = min_similarity or (1 - self.config.SIMILARITY_THRESHOLD)
EffectiveThreshold(ms) ==
    IF ms.some /\ ms.v /= 0 THEN Float(ms.v) ELSE OneMinus(SIMILARITY_THRESHOLD)

\* similarity = 1 - distance
Similarity(distance) == OneMinus(distance)

\* the loop over results['ids'][0]: a hit below the threshold is skipped
RECURSIVE ProcessHits(_, _, _)
ProcessHits(hits, min_similarity, search_results) ==
    IF hits = <<>> THEN search_results
    ELSE LET h == Head(hits)
             similarity == Similarity(h.distance)
         IN  ProcessHits(Tail(hits), min_similarity,
                         IF FloatLess(similarity, min_similarity)
                         THEN search_results
                         ELSE Append(search_results,
                                     [id |-> h.id, similarity |-> similarity]))

\* (variant: an exception ends the search with what was collected so far)
ExceptHandlerSwallows(search_results) ==
    [outcome |-> "ok", out |-> search_results]

\* except Exception as e: raise VectorStoreError(...)
ExceptHandler(search_results) ==
    [outcome |-> "VectorStoreError", out |-> <<>>]

MaxHits == 3
HitIds == <<"h1", "h2", "h3", "h4", "h5">>
Distances == {10, 30, 75, 90, 120}
\* answers of collection.query: at most `limit` hits in ascending distance
StoreAnswers(limit) ==
    UNION { { [i \in 1..len |-> [id |-> HitIds[i], distance |-> ds[i]]] :
                ds \in { x \in [1..len -> Distances] :
                           \A i \in 1..len : \A j \in 1..len :
                               i < j => x[i] <= x[j] } } :
            len \in 0..(IF limit < MaxHits THEN limit ELSE MaxHits) }

DenseNArgs == {NoneI, SomeI(-1), SomeI(0), SomeI(1), SomeI(2)}
DenseMinArgs == {NoneI, SomeI(0), SomeI(10), SomeI(25), SomeI(30), SomeI(90)}

DenseInit ==
    /\ dpc = "idle"
    /\ dargs = [n_results |-> NoneI, min_similarity |-> NoneI]
    /\ dlimit = 0
    /\ dthreshold = Float(0)
    /\ dembed = "not_called"
    /\ dstore = "not_called"
    /\ dhits = <<>>
    /\ dout = <<>>
    /\ doutcome = "none"

\* one call of search_recipes; embed_ok and the store's answer are what the
\* two external services do during the call
SearchRecipes(n, ms, embed_ok, store_ok, hits) ==
    /\ dpc = "idle"
    /\ dpc' = "done"
    /\ dargs' = [n_results |-> n, min_similarity |-> ms]
    /\ dlimit' = EffectiveLimit(n)
    /\ dthreshold' = EffectiveThreshold(ms)
    /\ IF ~embed_ok
       THEN /\ hits = <<>> /\ store_ok
            /\ dembed' = "error"
            /\ dstore' = "not_called"
            /\ dhits' = <<>>
            /\ doutcome' = ExceptHandler(<<>>).outcome
            /\ dout' = ExceptHandler(<<>>).out
       ELSE IF ~store_ok \/ dlimit' <= 0
       THEN /\ hits = <<>> /\ ~store_ok
            /\ dembed' = "ok"
            /\ dstore' = "error"
            /\ dhits' = <<>>
            /\ doutcome' = ExceptHandler(<<>>).outcome
            /\ dout' = ExceptHandler(<<>>).out
       ELSE /\ hits \in StoreAnswers(dlimit')
            /\ dembed' = "ok"
            /\ dstore' = "ok"
            /\ dhits' = hits
            /\ doutcome' = "ok"
            /\ dout' = ProcessHits(hits, dthreshold', <<>>)
    /\ UNCHANGED <<cvars, fvars, hvars, svars, xvars>>

DenseNext ==
    \E n \in DenseNArgs, ms \in DenseMinArgs, embed_ok \in BOOLEAN,
       store_ok \in BOOLEAN, hits \in StoreAnswers(MaxHits) :
        SearchRecipes(n, ms, embed_ok, store_ok, hits)


(***************************************************************************)
(* Keyword extraction (src/src/vector/keywords.py)                         *)
(***************************************************************************)
\* keywords.py:14-18
COOKING_STOPWORDS ==
    {<<"a">>, <<"a","n">>, <<"a","n","d">>, <<"a","r","e">>, <<"a","s">>,
      <<"a","t">>, <<"b","e">>, <<"b","y">>, <<"f","o","r">>,
      <<"f","r","o","m">>, <<"h","a","s">>, <<"h","e">>, <<"i","n">>,
      <<"i","s">>, <<"i","t">>, <<"i","t","s">>, <<"o","f">>, <<"o","n">>,
      <<"t","h","a","t">>, <<"t","h","e">>, <<"t","o">>, <<"w","a","s">>,
      <<"w","i","l","l">>, <<"w","i","t","h">>, <<"a","d","d">>,
      <<"t","h","e","n">>, <<"i","n","t","o">>, <<"o","v","e","r">>,
      <<"u","n","t","i","l">>, <<"a","b","o","u","t">>, <<"a","l","l">>,
      <<"a","l","s","o">>, <<"c","a","n">>, <<"o","r">> }

MIN_KEYWORD_LENGTH == 2
STOPWORDS_ENABLED == TRUE

\* the characters the pattern [^a-zA-Z0-9\s] leaves in place
IsAlnum(c) ==
    \/ \E i \in 1..26 : LowerChars[i] = c \/ UpperChars[i] = c
    \/ \E i \in 1..10 : DigitChars[i] = c
IsSpace(c) == c \in WhitespaceChars

\* re.sub(r'[^a-zA-Z0-9\s]', ' ', text.lower())
Cleaned(text) ==
    LET lowered == Lower(text)
    IN  [i \in 1..Len(lowered) |->
            IF IsAlnum(lowered[i]) \/ IsSpace(lowered[i])
            THEN lowered[i] ELSE " "]

\* str.split(): the maximal runs of characters that are not whitespace
RECURSIVE SplitWords(_, _, _)
SplitWords(text, word, words) ==
    IF text = <<>>
    THEN IF word = <<>> THEN words ELSE Append(words, word)
    ELSE IF IsSpace(Head(text))
         THEN SplitWords(Tail(text), <<>>,
                         IF word = <<>> THEN words ELSE Append(words, word))
         ELSE SplitWords(Tail(text), Append(word, Head(text)), words)

\* keywords.py:60-76
tokenize_text(text) == SplitWords(Cleaned(text), <<>>, <<>>)

\* (variant: the query loop keeps stopwords)
RECURSIVE FilterQueryTokensKeepsStopwords(_, _)
FilterQueryTokensKeepsStopwords(tokens, keywords) ==
    IF tokens = <<>> THEN keywords
    ELSE LET token == Head(tokens)
         IN  FilterQueryTokensKeepsStopwords(Tail(tokens),
                 IF Len(token) >= MIN_KEYWORD_LENGTH
                 THEN Append(keywords, Lower(token))
                 ELSE keywords)

\* the filter loop of extract_query_keywords (keywords.py:94-98)
RECURSIVE FilterQueryTokens(_, _)
FilterQueryTokens(tokens, keywords) ==
    IF tokens = <<>> THEN keywords
    ELSE LET token == Head(tokens)
         IN  FilterQueryTokens(Tail(tokens),
                 IF /\ Len(token) >= MIN_KEYWORD_LENGTH
                    /\ (~STOPWORDS_ENABLED \/ Lower(token) \notin COOKING_STOPWORDS)
                 THEN Append(keywords, Lower(token))
                 ELSE keywords)

\* (variant: the indexing loop keeps one-character tokens)
RECURSIVE FilterRecipeTokensAnyLength(_, _)
FilterRecipeTokensAnyLength(tokens, keywords) ==
    IF tokens = <<>> THEN keywords
    ELSE LET token == Head(tokens)
         IN  FilterRecipeTokensAnyLength(Tail(tokens),
                 IF ~STOPWORDS_ENABLED \/ Lower(token) \notin COOKING_STOPWORDS
                 THEN Append(keywords, Lower(token))
                 ELSE keywords)

\* the filter loop of extract_recipe_keywords (keywords.py:51-55)
RECURSIVE FilterRecipeTokens(_, _)
FilterRecipeTokens(tokens, keywords) ==
    IF tokens = <<>> THEN keywords
    ELSE LET token == Head(tokens)
         IN  FilterRecipeTokens(Tail(tokens),
                 IF /\ Len(token) >= MIN_KEYWORD_LENGTH
                    /\ (~STOPWORDS_ENABLED \/ Lower(token) \notin COOKING_STOPWORDS)
                 THEN Append(keywords, Lower(token))
                 ELSE keywords)

\* keywords.py:78-101
extract_query_keywords(q) == FilterQueryTokens(tokenize_text(q), <<>>)

\* (variant: the title is added once)
extract_recipe_keywordsTitleOnce(recipe) ==
    FilterRecipeTokens(
        tokenize_text(JoinSpace(<<recipe.title>>
                                \o recipe.ingredients \o recipe.instructions)),
        <<>>)

\* keywords.py:20-58: the title twice, then ingredients, then instructions
extract_recipe_keywords(recipe) ==
    FilterRecipeTokens(
        tokenize_text(JoinSpace(<<recipe.title, recipe.title>>
                                \o recipe.ingredients \o recipe.instructions)),
        <<>>)

\* keywords.py:103-119
build_recipe_corpus(recipes) ==
    [i \in 1..Len(recipes) |-> extract_recipe_keywords(recipes[i])]


(***************************************************************************)
(* The keyword functions called on bounded inputs                          *)
(***************************************************************************)
MaxTextLen == 4
\* letters of both cases, a digit, a separator, whitespace other than the
\* space and the two characters outside ASCII whose lower case holds an ASCII
\* letter; "a", "at" and "to" are stopwords
KChars == {"a", "T", "o", "1", "\r", "-", KelvinSign, CapitalIDot}
KeywordTexts == UNION { [1..len -> KChars] : len \in 0..MaxTextLen }

KTitles == { <<"T","o","o"," ","a","t">>, <<"1","a","-","T","a">> }
KIngredients == { <<"t","o","o"," ","1","a">>, <<"a">> }
KInstructions == { <<"a","-","t","a">>, <<"T","o","o">> }
KRecipes ==
    { [title |-> t, ingredients |-> ing, instructions |-> ins] :
        t \in KTitles,
        ing \in {<<>>} \cup { <<x>> : x \in KIngredients }
                \cup { <<x, y>> : x \in KIngredients, y \in KIngredients },
        ins \in {<<>>} \cup { <<x>> : x \in KInstructions } }
KRecipeLists ==
    {<<>>} \cup { <<r>> : r \in KRecipes }
           \cup { <<r, q>> : r \in KRecipes, q \in KRecipes }

KeywordInit ==
    /\ kpc = "idle"
    /\ ktext = <<>>
    /\ kkeywords = <<>>
    /\ krecipes = <<>>
    /\ kcorpus = <<>>

\* extract_query_keywords(text)
ExtractQueryKeywords(text) ==
    /\ kpc = "idle"
    /\ kpc' = "query"
    /\ ktext' = text
    /\ kkeywords' = extract_query_keywords(text)
    /\ UNCHANGED <<krecipes, kcorpus>>
    /\ UNCHANGED <<cvars, fvars, hvars, dvars, svars, tvars, avars, uvars, rvars>>

\* build_recipe_corpus(recipes)
BuildRecipeCorpus(recipes) ==
    /\ kpc = "idle"
    /\ kpc' = "corpus"
    /\ krecipes' = recipes
    /\ kcorpus' = build_recipe_corpus(recipes)
    /\ UNCHANGED <<ktext, kkeywords>>
    /\ UNCHANGED <<cvars, fvars, hvars, dvars, svars, tvars, avars, uvars, rvars>>

KeywordNext ==
    \/ \E text \in KeywordTexts : ExtractQueryKeywords(text)
    \/ \E recipes \in KRecipeLists : BuildRecipeCorpus(recipes)


(***************************************************************************)
(* Sparse index: VectorRecipeStore._build_bm25_index and                   *)
(* search_recipes_sparse.  The store keeps the index in three attributes,  *)
(* _bm25_index, _bm25_recipes and _bm25_recipe_ids                         *)
(* (test_sparse_search.py:194-196, test_filtering.py:390-395); a search on *)
(* a store whose index was never built builds it first                     *)
(* (test_sparse_search.py:198-259).  The BM25 score of a document is       *)
(* represented by the number of occurrences of the query keywords in its   *)
(* keyword list: it is positive exactly when the document shares a term    *)
(* with the query.                                                         *)
(***************************************************************************)
S_cook_it == <<"C","o","o","k"," ","i","t">>
\* the Recipe text of a stored document
RecipeOf(d) ==
    [title |-> DocMeta(d).title, ingredients |-> DocMeta(d).ingredients,
     instructions |-> <<S_cook_it>>]

\* an attribute that was never assigned (None), and one assigned by build gen
NoAttr == [gen |-> 0, v |-> <<>>]
Attr(gen, v) == [gen |-> gen, v |-> v]
Attributes == {"bm25_index", "bm25_recipes", "bm25_recipe_ids"}
Builders == {"rebuild", "query"}
NoBuild == [active |-> FALSE, gen |-> 0, ids |-> <<>>, recipes |-> <<>>,
            corpus |-> <<>>, assigned |-> {}]

\* what a build computes from the documents collection.get() returned: the
\* ids, the recipe metadata (one document name each) and the tokenized corpus
BuildOf(gen, docs) ==
    [active |-> TRUE, gen |-> gen, ids |-> docs, recipes |-> docs,
     corpus |-> build_recipe_corpus([i \in 1..Len(docs) |-> RecipeOf(docs[i])]),
     assigned |-> {}]

\* the value a build assigns to one attribute
BuiltAttr(build, a) ==
    Attr(build.gen, CASE a = "bm25_index" -> build.corpus
                      [] a = "bm25_recipes" -> build.recipes
                      [] a = "bm25_recipe_ids" -> build.ids)

\* occurrences of the query keywords in one document's keyword list
TermScore(doc_keywords, query_keywords) ==
    Cardinality({<<i, j>> \in (1..Len(doc_keywords)) \X (1..Len(query_keywords)) :
                    doc_keywords[i] = query_keywords[j]})

\* stable sort by score, descending
RECURSIVE InsertMatch(_, _)
InsertMatch(sorted, x) ==
    IF sorted = <<>> THEN <<x>>
    ELSE IF x.score > Head(sorted).score THEN <<x>> \o sorted
    ELSE <<Head(sorted)>> \o InsertMatch(Tail(sorted), x)

\* the positions of the index whose document shares a term with the query,
\* with their scores, best first
RECURSIVE RankedMatches(_, _, _, _)
RankedMatches(corpus, query_keywords, i, sorted) ==
    IF i > Len(corpus) THEN sorted
    ELSE LET score == TermScore(corpus[i], query_keywords)
         IN  RankedMatches(corpus, query_keywords, i + 1,
                 IF score > 0
                 THEN InsertMatch(sorted, [pos |-> i, score |-> score])
                 ELSE sorted)

\* what search_recipes_sparse answers from the attributes it read: nothing
\* when there is no index or the query has no keyword; otherwise the best
\* n_results positions of the index, each looked up in _bm25_recipe_ids and
\* _bm25_recipes, with the filter applied (test_filtering.py:381-409).  A
\* position the two lists do not hold (they are None, or shorter than the
\* index) makes the lookup raise.
SparseSearchResult(view, q, n, f) ==
    LET query_keywords == extract_query_keywords(q)
        top == Truncate(RankedMatches(view.bm25_index.v, query_keywords, 1, <<>>), n)
        held == \A i \in 1..Len(top) :
                    /\ top[i].pos <= Len(view.bm25_recipe_ids.v)
                    /\ top[i].pos <= Len(view.bm25_recipes.v)
        items == [i \in 1..Len(top) |->
                    [recipe_id |-> view.bm25_recipe_ids.v[top[i].pos],
                     recipe |-> SomeDict(DocMeta(view.bm25_recipes.v[top[i].pos])),
                     metadata |-> NoDict,
                     score |-> top[i].score, search_type |-> "sparse"]]
    IN  IF view.bm25_index.gen = 0 \/ query_keywords = <<>>
        THEN [outcome |-> "ok", out |-> <<>>]
        ELSE IF ~held
        THEN [outcome |-> "error", out |-> <<>>]
        ELSE [outcome |-> "ok", out |-> apply_metadata_filters(items, f)]

MaxBuilds == 2
MaxSearches == 1
BuildInputs == {<<>>, <<"A", "B", "C">>, <<"C", "A">>}
S_pasta == <<"p","a","s","t","a">>
SparseQueries ==
    { <<>>, <<"t","h","e"," ","a","!">>, S_pasta, S_cook_it,
      <<"C","h","i","c","k","e","n","-","c","u","r","r","y">> }
SparseFilters == {NoFilter, SomeFilter(QuickPrepFilter)}

SparseInit ==
    /\ sindex = [a \in Attributes |-> NoAttr]
    /\ sbuild = [b \in Builders |-> NoBuild]
    /\ sbuilds = 0
    /\ ssearches = 0
    /\ spc = "idle"
    /\ squery = <<>>
    /\ sn = 1
    /\ sfilters = NoFilter
    /\ sfound = NoAttr
    /\ sview = [a \in Attributes |-> NoAttr]
    /\ sout = <<>>
    /\ soutcome = "none"

\* _build_bm25_index() is called: it reads the documents the collection
\* holds at that moment and tokenizes them
BuildStart(docs) ==
    /\ ~sbuild["rebuild"].active
    /\ sbuilds < MaxBuilds
    /\ sbuilds' = sbuilds + 1
    /\ sbuild' = [sbuild EXCEPT !["rebuild"] = BuildOf(sbuilds + 1, docs)]
    /\ UNCHANGED <<sindex, ssearches, spc, squery, sn, sfilters, sfound, sview,
                   sout, soutcome>>
    /\ UNCHANGED <<cvars, fvars, hvars, dvars, xvars>>

\* a build assigns attributes of the store.  The three attributes are
\* separate, and the code that assigns them is not in src/: the build may
\* assign them in any order, one by one or several at once as far as another
\* thread can see.  With the last one assigned the build returns, and the
\* search that built the index goes on.
BuildAssign(b, attrs) ==
    /\ sbuild[b].active
    /\ attrs /= {}
    /\ attrs \cap sbuild[b].assigned = {}
    /\ sindex' = [a \in Attributes |->
                    IF a \in attrs THEN BuiltAttr(sbuild[b], a) ELSE sindex[a]]
    /\ LET assigned == sbuild[b].assigned \cup attrs
       IN  IF assigned = Attributes
           THEN /\ sbuild' = [sbuild EXCEPT ![b] = NoBuild]
                /\ spc' = IF b = "query" THEN "built" ELSE spc
           ELSE /\ sbuild' = [sbuild EXCEPT ![b].assigned = assigned]
                /\ UNCHANGED spc
    /\ UNCHANGED <<sbuilds, ssearches, squery, sn, sfilters, sfound, sview, sout,
                   soutcome>>
    /\ UNCHANGED <<cvars, fvars, hvars, dvars, xvars>>

\* a build fails: the attributes keep what they hold, what the build had
\* assigned included.  A search whose build failed goes on without an index.
BuildFail(b) ==
    /\ sbuild[b].active
    /\ sbuild' = [sbuild EXCEPT ![b] = NoBuild]
    /\ spc' = IF b = "query" THEN "built" ELSE spc
    /\ UNCHANGED <<sindex, sbuilds, ssearches, squery, sn, sfilters, sfound,
                   sview, sout, soutcome>>
    /\ UNCHANGED <<cvars, fvars, hvars, dvars, xvars>>

\* search_recipes_sparse(q, n, f) is called.  With no index it builds one
\* from the documents `docs` the collection holds (nothing is read from the
\* collection otherwise); with an index it reads _bm25_index and scores the
\* query against it.
SparseSearch(q, n, f, docs) ==
    /\ spc \in {"idle", "done"}
    /\ sindex["bm25_index"].gen /= 0 => docs = <<>>
    /\ ssearches < MaxSearches
    /\ ssearches' = ssearches + 1
    /\ squery' = q
    /\ sn' = n
    /\ sfilters' = f
    /\ sfound' = sindex["bm25_index"]
    /\ sout' = <<>>
    /\ soutcome' = "none"
    /\ IF sindex["bm25_index"].gen = 0
       THEN /\ sbuilds < MaxBuilds
            /\ spc' = "building"
            /\ sbuilds' = sbuilds + 1
            /\ sbuild' = [sbuild EXCEPT !["query"] = BuildOf(sbuilds + 1, docs)]
            /\ sview' = [a \in Attributes |-> NoAttr]
       ELSE /\ spc' = "reading"
            /\ sview' = [[a \in Attributes |-> NoAttr]
                            EXCEPT !["bm25_index"] = sindex["bm25_index"]]
            /\ UNCHANGED <<sbuild, sbuilds>>
    /\ UNCHANGED sindex
    /\ UNCHANGED <<cvars, fvars, hvars, dvars, xvars>>

\* the search's own build has ended: the search reads _bm25_index
SparseSearchResume ==
    /\ spc = "built"
    /\ spc' = "reading"
    /\ sview' = [sview EXCEPT !["bm25_index"] = sindex["bm25_index"]]
    /\ UNCHANGED <<sindex, sbuild, sbuilds, ssearches, squery, sn, sfilters,
                   sfound, sout, soutcome>>
    /\ UNCHANGED <<cvars, fvars, hvars, dvars, xvars>>

\* the search has the scores: it reads _bm25_recipes and _bm25_recipe_ids
\* for the best positions, applies the filter and returns
SparseSearchReturn ==
    /\ spc = "reading"
    /\ spc' = "done"
    /\ sview' = [sview EXCEPT !["bm25_recipes"] = sindex["bm25_recipes"],
                              !["bm25_recipe_ids"] = sindex["bm25_recipe_ids"]]
    /\ sout' = SparseSearchResult(sview', squery, sn, sfilters).out
    /\ soutcome' = SparseSearchResult(sview', squery, sn, sfilters).outcome
    /\ UNCHANGED <<sindex, sbuild, sbuilds, ssearches, squery, sn, sfilters,
                   sfound>>
    /\ UNCHANGED <<cvars, fvars, hvars, dvars, xvars>>

SparseNext ==
    \/ \E docs \in BuildInputs : BuildStart(docs)
    \/ \E b \in Builders, attrs \in SUBSET Attributes : BuildAssign(b, attrs)
    \/ \E b \in Builders : BuildFail(b)
    \/ \E q \in SparseQueries, n \in 1..MaxN, f \in SparseFilters,
          docs \in BuildInputs : SparseSearch(q, n, f, docs)
    \/ SparseSearchResume
    \/ SparseSearchReturn


(***************************************************************************)
(* VectorRecipeStore.add_recipes (store.py:119-165) with                   *)
(* RecipeEmbeddingGenerator.generate_batch_embeddings (embeddings.py)      *)
(***************************************************************************)
NoIds == [some |-> FALSE, v |-> <<>>]
SomeIds(l) == [some |-> TRUE, v |-> l]

\* embeddings.py:137-162: the results of the recipes whose embedding did not
\* raise EmbeddingGenerationError, in input order; failed recipes are skipped
RECURSIVE generate_batch_embeddings(_, _, _)
generate_batch_embeddings(recipes, failing, i) ==
    IF i > Len(recipes) THEN <<>>
    ELSE IF i \in failing
         THEN generate_batch_embeddings(recipes, failing, i + 1)
         ELSE <<recipes[i]>> \o generate_batch_embeddings(recipes, failing, i + 1)

\* the collection (Chroma) holds one document per id, in insertion order:
\* add() ignores a document whose id is already held (of two documents of
\* one add() with the same id the first is kept) unless it raises, which is
\* the store_ok = FALSE outcome of the calls below; update() changes the
\* document of an id that is held and ignores any other, delete() removes
\* the document of an id when there is one
CollectionIds(c) == { c[i].id : i \in 1..Len(c) }
RECURSIVE CollectionAdd(_, _)
CollectionAdd(c, docs) ==
    IF docs = <<>> THEN c
    ELSE CollectionAdd(IF Head(docs).id \in CollectionIds(c) THEN c
                       ELSE Append(c, Head(docs)),
                       Tail(docs))
CollectionUpdate(c, id, recipe) ==
    [i \in 1..Len(c) |->
        IF c[i].id = id THEN [id |-> id, recipe |-> recipe] ELSE c[i]]
CollectionDelete(c, id) == SelectSeq(c, LAMBDA d : d.id /= id)

MaxBatch == 3
MaxStoreCalls == 2

\* store.py:96-97, 130-131: ids generated when the caller gave none, one per
\* recipe: "recipe_" and the first 8 hex digits of a uuid4, 16^8 values.  The
\* collection is not consulted and the draws are independent: a draw gives
\* an id no earlier draw gave (the usual case) or one that was given before,
\* in this batch or in an earlier call.  The ids are named in the order of
\* their first appearance, so after k distinct ids a draw is one of the
\* first k + 1 names; the pool has a name for every draw the calls can make.
GeneratedNames ==
    <<"recipe_a", "recipe_b", "recipe_c", "recipe_d", "recipe_e", "recipe_f",
      "recipe_g", "recipe_h", "recipe_i", "recipe_j", "recipe_k", "recipe_l">>
GeneratedPool == SubSeq(GeneratedNames, 1, MaxBatch * MaxStoreCalls)
NameIndex(id) == CHOOSE k \in 1..Len(GeneratedNames) : GeneratedNames[k] = id
\* the number of distinct ids given once the list `generated` was drawn
\* after `drawn` distinct ids
RECURSIVE DrawnAfter(_, _)
DrawnAfter(generated, drawn) ==
    IF generated = <<>> THEN drawn
    ELSE DrawnAfter(Tail(generated),
                    IF NameIndex(Head(generated)) > drawn
                    THEN NameIndex(Head(generated)) ELSE drawn)
\* the possible draws of a batch of `len` ids after `drawn` distinct ids:
\* every draw is an id given before or the next new one
RECURSIVE GeneratedDraws(_, _)
GeneratedDraws(len, drawn) ==
    IF len = 0 THEN {<<>>}
    ELSE UNION { { <<GeneratedPool[k]>> \o rest :
                     rest \in GeneratedDraws(len - 1,
                                             IF k > drawn THEN k ELSE drawn) } :
                 k \in 1..(IF drawn < Len(GeneratedPool) THEN drawn + 1
                           ELSE Len(GeneratedPool)) }
GeneratedIds(recipes, recipe_ids, drawn) ==
    IF recipe_ids.some THEN {<<>>}
    ELSE GeneratedDraws(Len(recipes), drawn)
EffectiveIds(recipes, recipe_ids, generated) ==
    IF recipe_ids.some THEN recipe_ids.v ELSE generated

\* store.py:151: used_ids = recipe_ids[:len(embedding_results)]
UsedIds(recipe_ids, embedding_results) ==
    SubSeq(recipe_ids, 1, IF Len(embedding_results) < Len(recipe_ids)
                          THEN Len(embedding_results) ELSE Len(recipe_ids))

\* store.py:130-165: what add_recipes hands to collection.add and returns
AddRecipesResult(recipes, recipe_ids, generated, failing, store_ok) ==
    LET ids == EffectiveIds(recipes, recipe_ids, generated)
        embedding_results == generate_batch_embeddings(recipes, failing, 1)
        used_ids == UsedIds(ids, embedding_results)
        raised == [outcome |-> "VectorStoreError", embedded |-> <<>>,
                   stored |-> <<>>, returned |-> <<>>]
    IN  IF Len(ids) /= Len(recipes) THEN raised
        ELSE IF embedding_results = <<>>
        THEN raised
        ELSE IF ~store_ok
        THEN [raised EXCEPT !.embedded = embedding_results]
        ELSE [outcome |-> "ok",
              embedded |-> embedding_results,
              stored |-> [i \in 1..Len(used_ids) |->
                             [id |-> used_ids[i], recipe |-> embedding_results[i]]],
              returned |-> used_ids]

RecipeNames == {"P", "Q", "R"}
IdPool == <<"id1", "id2", "id3", "id4", "id5">>
\* batches of distinct recipes: every length up to MaxBatch, and both orders
\* of a pair
Batches ==
    { b \in UNION { [1..len -> RecipeNames] : len \in 0..MaxBatch } :
        \/ b = SubSeq(<<"P", "Q", "R">>, 1, Len(b))
        \/ b \in {<<"Q">>, <<"Q", "P">>} }
\* recipe_ids: None, or a list of distinct ids of any length up to MaxBatch
IdArgs == {NoIds} \cup { SomeIds(SubSeq(IdPool, 1, len)) : len \in 0..MaxBatch }
\* recipe_id of add_recipe, update_recipe and delete_recipe
IdArg == {NoneS, SomeS("id1"), SomeS("id2")}

AddInit ==
    /\ apc = "idle"
    /\ acalls = 0
    /\ acollection = <<>>
    /\ arecipes = <<>>
    /\ aids = NoIds
    /\ aembedded = <<>>
    /\ astored = <<>>
    /\ areturned = <<>>
    /\ aoutcome = "none"
    /\ aclear = 0
    /\ agenerated = 0

\* add_recipes(recipes, recipe_ids); `generated` are the ids uuid4 gives when
\* recipe_ids is None, `failing` the positions whose embedding raises,
\* store_ok whether collection.add succeeds
AddRecipes(recipes, recipe_ids, generated, failing, store_ok) ==
    /\ acalls < MaxStoreCalls
    /\ failing \subseteq 1..Len(recipes)
    /\ acalls' = acalls + 1
    /\ apc' = "add_recipes"
    /\ arecipes' = recipes
    /\ aids' = [some |-> TRUE, v |-> EffectiveIds(recipes, recipe_ids, generated)]
    /\ agenerated' = DrawnAfter(generated, agenerated)
    /\ UNCHANGED aclear
    /\ LET r == AddRecipesResult(recipes, recipe_ids, generated, failing, store_ok)
       IN  /\ aembedded' = r.embedded
           /\ astored' = r.stored
           /\ areturned' = r.returned
           /\ aoutcome' = r.outcome
           /\ acollection' = CollectionAdd(acollection, r.stored)
    /\ UNCHANGED <<cvars, fvars, hvars, dvars, svars, kvars, tvars, uvars, rvars>>

\* add_recipe(recipe, recipe_id) (store.py:85-117): the id is the one uuid4
\* gives (`generated`) when recipe_id is None; a failure of the embedding or
\* of collection.add raises
AddRecipe(recipe, recipe_id, generated, embed_ok, store_ok) ==
    /\ acalls < MaxStoreCalls
    /\ acalls' = acalls + 1
    /\ apc' = "add_recipe"
    /\ arecipes' = <<recipe>>
    /\ agenerated' = DrawnAfter(generated, agenerated)
    /\ UNCHANGED aclear
    /\ LET id == IF recipe_id.some THEN recipe_id.v ELSE generated[1]
       IN  /\ aids' = SomeIds(<<id>>)
           /\ aembedded' = IF embed_ok THEN <<recipe>> ELSE <<>>
           /\ IF embed_ok /\ store_ok
              THEN /\ astored' = <<[id |-> id, recipe |-> recipe]>>
                   /\ acollection' = CollectionAdd(acollection, astored')
                   /\ areturned' = <<id>>
                   /\ aoutcome' = "ok"
              ELSE /\ embed_ok \/ store_ok
                   /\ astored' = <<>>
                   /\ UNCHANGED acollection
                   /\ areturned' = <<>>
                   /\ aoutcome' = "VectorStoreError"
    /\ UNCHANGED <<cvars, fvars, hvars, dvars, svars, kvars, tvars, uvars, rvars>>

\* update_recipe(recipe_id, recipe) (store.py:245-275): True, or False when
\* the embedding or collection.update raised
UpdateRecipe(recipe_id, recipe, embed_ok, store_ok) ==
    /\ acalls < MaxStoreCalls
    /\ acalls' = acalls + 1
    /\ apc' = "update_recipe"
    /\ UNCHANGED <<aclear, agenerated>>
    /\ arecipes' = <<recipe>>
    /\ aids' = SomeIds(<<recipe_id>>)
    /\ aembedded' = IF embed_ok THEN <<recipe>> ELSE <<>>
    /\ astored' = <<>>
    /\ areturned' = <<>>
    /\ IF embed_ok /\ store_ok
       THEN /\ acollection' = CollectionUpdate(acollection, recipe_id, recipe)
            /\ aoutcome' = "True"
       ELSE /\ embed_ok \/ store_ok
            /\ UNCHANGED acollection
            /\ aoutcome' = "False"
    /\ UNCHANGED <<cvars, fvars, hvars, dvars, svars, kvars, tvars, uvars, rvars>>

\* delete_recipe(recipe_id) (store.py:277-296): True, or False when
\* collection.delete raised
DeleteRecipe(recipe_id, store_ok) ==
    /\ acalls < MaxStoreCalls
    /\ acalls' = acalls + 1
    /\ apc' = "delete_recipe"
    /\ UNCHANGED <<aclear, agenerated>>
    /\ arecipes' = <<>>
    /\ aids' = SomeIds(<<recipe_id>>)
    /\ aembedded' = <<>>
    /\ astored' = <<>>
    /\ areturned' = <<>>
    /\ acollection' = IF store_ok THEN CollectionDelete(acollection, recipe_id)
                      ELSE acollection
    /\ aoutcome' = IF store_ok THEN "True" ELSE "False"
    /\ UNCHANGED <<cvars, fvars, hvars, dvars, svars, kvars, tvars, uvars, rvars>>

\* clear_collection() (store.py:307-329) makes two requests to the server:
\* client.delete_collection (store.py:318), then, through the collection
\* property (store.py:322, 66-83), get_collection and, when no collection of
\* that name exists, create_collection.  The calls of another store object
\* on the same collection can be served between the two, the requests of
\* its clear_collection included; a store that finds no collection creates
\* it (store.py:74-78), and clear_collection then connects to that one.
\*
\* first request: False when delete_collection raised (nothing changed; so
\* it does when another store has deleted the collection and none has made
\* it again), otherwise the documents are gone and the call goes on
ClearCollectionDelete(delete_ok) ==
    /\ acalls < MaxStoreCalls
    /\ acalls' = acalls + 1
    /\ UNCHANGED agenerated
    /\ IF delete_ok
       THEN /\ acollection' = <<>>
            /\ aclear' = aclear + 1
            /\ UNCHANGED <<apc, arecipes, aids, aembedded, astored, areturned,
                           aoutcome>>
       ELSE /\ apc' = "clear_collection"
            /\ arecipes' = <<>>
            /\ aids' = NoIds
            /\ aembedded' = <<>>
            /\ astored' = <<>>
            /\ areturned' = <<>>
            /\ aoutcome' = "False"
            /\ UNCHANGED <<acollection, aclear>>
    /\ UNCHANGED <<cvars, fvars, hvars, dvars, svars, kvars, tvars, uvars, rvars>>

\* second request: the collection is fetched or created again; True, or
\* False when that raised.  The collection holds what was added meanwhile.
ClearCollectionRecreate(recreate_ok) ==
    /\ aclear > 0
    /\ aclear' = aclear - 1
    /\ apc' = "clear_collection"
    /\ arecipes' = <<>>
    /\ aids' = NoIds
    /\ aembedded' = <<>>
    /\ astored' = <<>>
    /\ areturned' = <<>>
    /\ aoutcome' = IF recreate_ok THEN "True" ELSE "False"
    /\ UNCHANGED <<acalls, acollection, agenerated>>
    /\ UNCHANGED <<cvars, fvars, hvars, dvars, svars, kvars, tvars, uvars, rvars>>

AddNext ==
    \/ \E recipes \in Batches, recipe_ids \in IdArgs,
          failing \in SUBSET (1..MaxBatch), store_ok \in BOOLEAN :
           \E generated \in GeneratedIds(recipes, recipe_ids, agenerated) :
               AddRecipes(recipes, recipe_ids, generated, failing, store_ok)
    \/ \E recipe \in RecipeNames, recipe_id \in IdArg,
          embed_ok \in BOOLEAN, store_ok \in BOOLEAN :
           \E generated \in GeneratedIds(<<recipe>>, recipe_id, agenerated) :
               AddRecipe(recipe, recipe_id, generated, embed_ok, store_ok)
    \/ \E recipe_id \in {"id1", "id2"}, recipe \in RecipeNames,
          embed_ok \in BOOLEAN, store_ok \in BOOLEAN :
           UpdateRecipe(recipe_id, recipe, embed_ok, store_ok)
    \/ \E recipe_id \in {"id1", "id2"}, store_ok \in BOOLEAN :
           DeleteRecipe(recipe_id, store_ok)
    \/ \E delete_ok \in BOOLEAN : ClearCollectionDelete(delete_ok)
    \/ \E recreate_ok \in BOOLEAN : ClearCollectionRecreate(recreate_ok)


(***************************************************************************)
(* UserRecipeCollection.add_user_recipe (user_collections.py:79-127) and   *)
(* get_user_recipe_count (user_collections.py:169-183)                     *)
(***************************************************************************)
MAX_USER_RECIPES == 2
MaxAdds == 4
Callers == {"u1", "u2"}

\* get_user_recipe_count: the size of the collection, or 0 when the lookup
\* raises (user_collections.py:181-183)
get_user_recipe_count(stored, lookup_ok) == IF lookup_ok THEN stored ELSE 0

\* (variant: the limit test lets the collection grow by one more)
LimitExceededOffByOne(current_count) == current_count > MAX_USER_RECIPES

\* user_collections.py:97: current_count >= MAX_USER_RECIPES
LimitExceeded(current_count) == current_count >= MAX_USER_RECIPES

UserInit ==
    /\ ustored = 0
    /\ ucalls = 0
    /\ upc = [p \in Callers |-> "idle"]
    /\ ustart = [p \in Callers |-> 0]
    /\ ucount = [p \in Callers |-> 0]
    /\ uoutcome = [p \in Callers |-> "none"]
    /\ udeleted = "none"

\* add_user_recipe starts: line 96 reads the count
AddUserRecipeCount(p, lookup_ok) ==
    /\ upc[p] \in {"idle", "done"}
    /\ ucalls < MaxAdds
    /\ ucalls' = ucalls + 1
    /\ upc' = [upc EXCEPT ![p] = "counted"]
    /\ ustart' = [ustart EXCEPT ![p] = ustored]
    /\ ucount' = [ucount EXCEPT ![p] = get_user_recipe_count(ustored, lookup_ok)]
    /\ uoutcome' = [uoutcome EXCEPT ![p] = "none"]
    /\ UNCHANGED <<ustored, udeleted>>
    /\ UNCHANGED <<cvars, fvars, hvars, dvars, svars, kvars, tvars, avars, rvars>>

\* self.store.insert_recipe(recipe, metadata=...): stores the recipe as one
\* more document of the collection and returns its id, or raises
insert_recipe(stored, store_ok) ==
    [raised |-> ~store_ok, stored |-> IF store_ok THEN stored + 1 ELSE stored]

\* lines 97-127: the limit test, then the insertion into the collection
AddUserRecipeStore(p, store_ok) ==
    /\ upc[p] = "counted"
    /\ upc' = [upc EXCEPT ![p] = "done"]
    /\ IF LimitExceeded(ucount[p])
       THEN /\ store_ok
            /\ uoutcome' = [uoutcome EXCEPT ![p] = "limit_error"]
            /\ UNCHANGED ustored
       ELSE LET r == insert_recipe(ustored, store_ok)
            IN  /\ uoutcome' = [uoutcome EXCEPT ![p] =
                                   IF r.raised THEN "store_error" ELSE "ok"]
                /\ ustored' = r.stored
    /\ UNCHANGED <<ucalls, ustart, ucount, udeleted>>
    /\ UNCHANGED <<cvars, fvars, hvars, dvars, svars, kvars, tvars, avars, rvars>>

\* delete_user_recipe(recipe_id) (user_collections.py:212-231): `held` says
\* whether the collection holds a recipe of that id; True, or
\* UserRecipeCollectionError when collection.delete raised
DeleteUserRecipe(held, store_ok) ==
    /\ held => ustored > 0
    /\ ustored' = IF held /\ store_ok THEN ustored - 1 ELSE ustored
    /\ udeleted' = IF store_ok THEN "True" ELSE "error"
    /\ UNCHANGED <<ucalls, upc, ustart, ucount, uoutcome>>
    /\ UNCHANGED <<cvars, fvars, hvars, dvars, svars, kvars, tvars, avars, rvars>>

UserNext ==
    \/ \E p \in Callers, lookup_ok \in BOOLEAN : AddUserRecipeCount(p, lookup_ok)
    \/ \E p \in Callers, store_ok \in BOOLEAN : AddUserRecipeStore(p, store_ok)
    \/ \E held \in BOOLEAN, store_ok \in BOOLEAN : DeleteUserRecipe(held, store_ok)


(***************************************************************************)
(* validate_filter_ranges (filters.py:327-367) next to the construction of *)
(* a RecipeFilter from the same ranges                                     *)
(***************************************************************************)
NoPair == [some |-> FALSE, min |-> 0, max |-> 0]
SomePair(a, b) == [some |-> TRUE, min |-> a, max |-> b]

\* (variant: the upper bound of a range is not checked)
RangeArgRaisesNoUpper(range, config_min, config_max) ==
    /\ range.some
    /\ \/ range.min > range.max
       \/ range.min < config_min

\* one `if <range>:` block of validate_filter_ranges: TRUE iff it raises
RangeArgRaises(range, config_min, config_max) ==
    /\ range.some
    /\ \/ range.min > range.max
       \/ range.min < config_min \/ range.max > config_max

\* validate_filter_ranges: TRUE iff it raises FilterValidationError
ValidateFilterRangesRaises(prep_time_range, cook_time_range, servings_range) ==
    \/ RangeArgRaises(prep_time_range, MIN_PREP_TIME_FILTER, MAX_PREP_TIME_FILTER)
    \/ RangeArgRaises(cook_time_range, MIN_COOK_TIME_FILTER, MAX_COOK_TIME_FILTER)
    \/ RangeArgRaises(servings_range, MIN_SERVINGS_FILTER, MAX_SERVINGS_FILTER)

MinOf(range) == IF range.some THEN SomeI(range.min) ELSE NoneI
MaxOf(range) == IF range.some THEN SomeI(range.max) ELSE NoneI

\* RecipeFilter(prep_time_min=.., prep_time_max=.., ...) from the ranges
FilterOfRanges(prep_time_range, cook_time_range, servings_range) ==
    [EmptyFilterFields EXCEPT
        !.prep_time_min = MinOf(prep_time_range),
        !.prep_time_max = MaxOf(prep_time_range),
        !.cook_time_min = MinOf(cook_time_range),
        !.cook_time_max = MaxOf(cook_time_range),
        !.servings_min = MinOf(servings_range),
        !.servings_max = MaxOf(servings_range)]

RangePairs(vals) == {NoPair} \cup { SomePair(a, b) : a \in vals, b \in vals }
PrepRanges ==
    RangePairs({MIN_PREP_TIME_FILTER - 10, MIN_PREP_TIME_FILTER, 10, 30,
                MAX_PREP_TIME_FILTER, MAX_PREP_TIME_FILTER + 1})
CookRanges ==
    RangePairs({MIN_COOK_TIME_FILTER - 1, 15, 45, MAX_COOK_TIME_FILTER + 1})
ServingsRanges ==
    RangePairs({MIN_SERVINGS_FILTER - 1, MIN_SERVINGS_FILTER, 8, 100})

RangesInit ==
    /\ rpc = "idle"
    /\ rargs = <<NoPair, NoPair, NoPair>>
    /\ rvalid = "none"
    /\ rctor = "none"

\* the same ranges given to validate_filter_ranges and to RecipeFilter
ValidateAndConstruct(prep, cook, serv) ==
    /\ rpc = "idle"
    /\ rpc' = "done"
    /\ rargs' = <<prep, cook, serv>>
    /\ rvalid' = IF ValidateFilterRangesRaises(prep, cook, serv)
                 THEN "raised" ELSE "True"
    /\ rctor' = IF ValidateFiltersRaises(FilterOfRanges(prep, cook, serv))
                THEN "raised" ELSE "built"
    /\ UNCHANGED <<cvars, fvars, hvars, dvars, svars, kvars, tvars, avars, uvars>>

RangesNext ==
    \E prep \in PrepRanges, cook \in CookRanges, serv \in ServingsRanges :
        ValidateAndConstruct(prep, cook, serv)


(***************************************************************************)
(* Specifications                                                          *)
(***************************************************************************)
Init == CtorInit /\ FilterInit /\ HybridInit /\ DenseInit
        /\ SparseInit /\ KeywordInit /\ AddInit /\ UserInit /\ RangesInit
Next == HybridNext
Spec == Init /\ [][Next]_vars

\* the steps of Next that end the retrieval phase are the HybridComplete
\* steps, and they are possible exactly when both calls have ended
Completion ==
    /\ pc = "retrieving"
    /\ sparse_state \in {"ok", "failed"}
    /\ dense_state \in {"ok", "failed"}
    /\ pc' = "done"

\* the sparse call is an in-memory computation that ends, and the search
\* goes on once both calls have ended; the dense call waits for the
\* embedding service and the vector store (store.py:185-193) with no
\* timeout, so nothing makes it respond
LiveSpec ==
    /\ Init /\ [][Next]_vars
    /\ WF_vars(SparseFails \/ \E ids \in RankedIds(MaxN * OVERSAMPLE_FACTOR) :
                                  SparseReturns(ids))
    /\ WF_pc(Completion)

CtorSpec == Init /\ [][CtorNext]_vars

FilterSpec == Init /\ [][FilterNext]_vars

DenseSpec == Init /\ [][DenseNext]_vars

SparseSpec == Init /\ [][SparseNext]_vars

KeywordSpec == Init /\ [][KeywordNext]_vars

AddSpec == Init /\ [][AddNext]_vars

UserSpec == Init /\ [][UserNext]_vars

RangesSpec == Init /\ [][RangesNext]_vars

(***************************************************************************)
(* Properties of the fusion engine                                         *)
(***************************************************************************)
SparseIds == [i \in 1..Len(sparse_results) |-> sparse_results[i].recipe_id]
DenseIds == [i \in 1..Len(dense_results) |-> dense_results[i].id]
IdSet(ids) == {ids[i] : i \in 1..Len(ids)}
\* 1-based position of a document in one source's own list
RankIn(ids, d) == CHOOSE i \in 1..Len(ids) : ids[i] = d
Fused == pc = "done" /\ outcome = "ok" /\ sparse_calls > 0

\* the rrf contribution a document must get from one source
ExpectedRRF(ids, d, weight) ==
    IF d \in IdSet(ids) THEN Frac(weight, RRF_K + RankIn(ids, d)) ELSE FracZero

\* C1: every fused result has rrf_sparse = w_sparse / (k + its 1-based
\* position in the sparse list), 0 if it is absent from the sparse list,
\* rrf_dense likewise, and combined_score = rrf_sparse + rrf_dense.
C1_RRFFormula ==
    Fused =>
        \A i \in 1..Len(fused) :
            LET e == fused[i]
                rs == ExpectedRRF(SparseIds, e.recipe_id, sparse_weight)
                rd == ExpectedRRF(DenseIds, e.recipe_id, dense_weight)
            IN  /\ FracEq(e.rrf_sparse, rs)
                /\ (e.recipe_id \notin IdSet(SparseIds) => e.rrf_sparse.num = 0)
                /\ FracEq(e.rrf_dense, rd)
                /\ (e.recipe_id \notin IdSet(DenseIds) => e.rrf_dense.num = 0)
                /\ FracEq(e.combined_score, FracAdd(rs, rd))

\* C1 witness: a fused document at different positions of the two lists
\* (neither is a global rank) next to one that only the sparse list holds
C1_Witness ==
    /\ Fused
    /\ sparse_weight > 0 /\ dense_weight > 0 /\ sparse_weight /= dense_weight
    /\ \E d \in IdSet(SparseIds) \cap IdSet(DenseIds) :
          RankIn(SparseIds, d) = 2 /\ RankIn(DenseIds, d) = 1
    /\ \E d \in IdSet(SparseIds) : d \notin IdSet(DenseIds)

\* position of a document in the order of first appearance: the sparse list,
\* then the dense results the sparse list does not hold
InsertionOrder ==
    SparseIds \o SelectSeq(DenseIds, LAMBDA d : d \notin IdSet(SparseIds))

OrderedByScore(list) ==
    \A i, j \in 1..Len(list) :
        i < j =>
            /\ ~FracGt(list[j].combined_score, list[i].combined_score)
            /\ (FracEq(list[i].combined_score, list[j].combined_score) =>
                   RankIn(InsertionOrder, list[i].recipe_id)
                       < RankIn(InsertionOrder, list[j].recipe_id))

\* C2: the returned list is in descending combined_score order and results
\* of equal combined_score keep their insertion order.
C2_OrderedStable ==
    Fused => OrderedByScore(result) /\ OrderedByScore(fused)

\* C2 witness: two returned results tie on a positive combined_score
C2_Witness ==
    /\ Fused
    /\ \E i, j \in 1..Len(result) :
          /\ i < j
          /\ result[i].combined_score.num > 0
          /\ FracEq(result[i].combined_score, result[j].combined_score)

\* C3: the fused list before truncation holds every id of the union of the
\* two lists exactly once; an id of both lists has one entry with both scores.
C3_UnionOnce ==
    Fused =>
        /\ {fused[i].recipe_id : i \in 1..Len(fused)}
              = IdSet(SparseIds) \cup IdSet(DenseIds)
        /\ \A i, j \in 1..Len(fused) :
              i /= j => fused[i].recipe_id /= fused[j].recipe_id
        /\ \A i \in 1..Len(fused) :
              LET d == fused[i].recipe_id
              IN  /\ fused[i].sparse_score =
                        (IF d \in IdSet(SparseIds)
                         THEN sparse_results[RankIn(SparseIds, d)].score ELSE 0)
                  /\ fused[i].dense_score =
                        (IF d \in IdSet(DenseIds)
                         THEN dense_results[RankIn(DenseIds, d)].similarity ELSE 0)

\* C3 witness: a document of both lists, fused into one entry
C3_Witness ==
    /\ Fused
    /\ \E i \in 1..Len(fused) :
          /\ fused[i].recipe_id \in IdSet(SparseIds) \cap IdSet(DenseIds)
          /\ fused[i].sparse_score > 0
          /\ fused[i].dense_score > 0
    /\ Len(fused) > n_results

(***************************************************************************)
(* Properties of the orchestrator                                          *)
(***************************************************************************)
ResultIds == [i \in 1..Len(result) |-> result[i].recipe_id]
Retrieved == pc = "done" /\ sparse_calls > 0
\* the candidates of one path that pass the caller's filter, in rank order
PassingSparse == apply_metadata_filters(sparse_results, filters)
PassingDense == apply_metadata_filters(dense_results, filters)
PassingSparseIds == [i \in 1..Len(PassingSparse) |-> PassingSparse[i].recipe_id]
PassingDenseIds == [i \in 1..Len(PassingDense) |-> PassingDense[i].id]
Min(a, b) == IF a < b THEN a ELSE b

\* C7: when exactly one of the two retrieval calls fails, the search does not
\* raise: the failed path contributes no candidate and the caller gets the
\* results of the other path.
C7_SingleFailureDegrades ==
    /\ (Retrieved /\ sparse_state = "failed" /\ dense_state = "ok") =>
          /\ outcome = "ok"
          /\ sparse_results = <<>>
          /\ IdSet(ResultIds) \subseteq IdSet(PassingDenseIds)
          /\ Len(result) = Min(n_results, Len(PassingDense))
          /\ \A i \in 1..Len(result) : result[i].sparse_score = 0
    /\ (Retrieved /\ dense_state = "failed" /\ sparse_state = "ok") =>
          /\ outcome = "ok"
          /\ dense_results = <<>>
          /\ IdSet(ResultIds) \subseteq IdSet(PassingSparseIds)
          /\ Len(result) = Min(n_results, Len(PassingSparse))
          /\ \A i \in 1..Len(result) : result[i].dense_score = 0

\* C7 witness: the sparse call failed, the dense call answered, and the
\* caller holds dense results
C7_Witness ==
    /\ Retrieved
    /\ sparse_state = "failed" /\ dense_state = "ok"
    /\ outcome = "ok"
    /\ Len(result) >= 2

\* C8: with the dense path failed or empty, the search returns the documents
\* of the sparse search in the sparse order (those passing the filter, up to
\* n_results), each with combined_score = w_sparse / (k + its sparse rank),
\* rrf_dense = 0 and dense_score = 0; symmetrically with the sparse list empty.
C8_SingleSourceRanking ==
    /\ (Retrieved /\ sparse_state = "ok" /\ dense_results = <<>>) =>
          /\ ResultIds = Truncate(PassingSparseIds, n_results)
          /\ \A i \in 1..Len(result) :
                /\ FracEq(result[i].combined_score,
                          Frac(sparse_weight,
                               RRF_K + RankIn(SparseIds, result[i].recipe_id)))
                /\ result[i].rrf_dense.num = 0
                /\ result[i].dense_score = 0
    /\ (Retrieved /\ dense_state = "ok" /\ sparse_results = <<>>) =>
          /\ ResultIds = Truncate(PassingDenseIds, n_results)
          /\ \A i \in 1..Len(result) :
                /\ FracEq(result[i].combined_score,
                          Frac(dense_weight,
                               RRF_K + RankIn(DenseIds, result[i].recipe_id)))
                /\ result[i].rrf_sparse.num = 0
                /\ result[i].sparse_score = 0

\* C8 witness: the dense call failed and the caller holds, under a filter,
\* two sparse results in the order of the sparse search
C8_Witness ==
    /\ Retrieved
    /\ sparse_state = "ok" /\ dense_state = "failed"
    /\ sparse_weight > 0
    /\ filters.some
    /\ Len(sparse_ranked) = 3
    /\ Len(result) = 2
    /\ RankIn(SparseIds, result[2].recipe_id) = 2

\* no candidate of a path that answered passes the filter
NothingMatched == PassingSparse = <<>> /\ PassingDense = <<>>

\* C9 as stated: both paths failed => a distinct error; and an empty success
\* only when both paths succeeded and matched nothing.
C9_Original ==
    /\ (Retrieved /\ sparse_state = "failed" /\ dense_state = "failed") =>
          outcome = "total_failure"
    /\ (Retrieved /\ outcome = "ok" /\ result = <<>>) =>
          /\ sparse_state = "ok" /\ dense_state = "ok"
          /\ NothingMatched

\* C9 amended: both paths failed => a distinct error, never a success; an
\* empty success is returned only when at least one path succeeded and no
\* candidate of the paths that succeeded matched.
C9_TotalFailureSurfaced ==
    /\ (Retrieved /\ sparse_state = "failed" /\ dense_state = "failed") =>
          outcome = "total_failure"
    /\ (Retrieved /\ outcome = "ok") =>
          (sparse_state = "ok" \/ dense_state = "ok")
    /\ (Retrieved /\ outcome = "ok" /\ result = <<>>) =>
          NothingMatched

\* C9 witness: both retrieval calls of one search failed
C9_Witness ==
    /\ Retrieved
    /\ sparse_state = "failed" /\ dense_state = "failed"
    /\ outcome = "total_failure"

(***************************************************************************)
(* Properties of the filter engine and of RecipeFilter                     *)
(***************************************************************************)
\* passes(metadata, filter) as the specification defines it: every present
\* constraint holds; a missing or non-numeric field fails an active range
\* check, and a missing component fails max_total_time
SpecRangePasses(m, key, min_val, max_val) ==
    (min_val.some \/ max_val.some) =>
        /\ Has(m, key)
        /\ NumField(m, key).k /= "null"
        /\ ToInt(NumField(m, key)).ok
        /\ (min_val.some => ToInt(NumField(m, key)).v >= min_val.v)
        /\ (max_val.some => ToInt(NumField(m, key)).v <= max_val.v)
SpecTotalTimePasses(m, f) ==
    f.max_total_time.some =>
        /\ Has(m, "prep_time") /\ Has(m, "cook_time")
        /\ ToInt(m.prep_time).ok /\ ToInt(m.cook_time).ok
        /\ ToInt(m.prep_time).v + ToInt(m.cook_time).v <= f.max_total_time.v
SpecDietaryPasses(m, f) ==
    TruthyL(f.dietary_restrictions) =>
        \E i \in 1..Len(f.dietary_restrictions.v) :
            RestrictionMatches(f.dietary_restrictions.v[i], RecipeText(m))
SpecPasses(m, f) ==
    /\ (f.difficulty.some => (Has(m, "difficulty") /\ m.difficulty = f.difficulty.v))
    /\ SpecRangePasses(m, "prep_time", f.prep_time_min, f.prep_time_max)
    /\ SpecRangePasses(m, "cook_time", f.cook_time_min, f.cook_time_max)
    /\ SpecRangePasses(m, "servings", f.servings_min, f.servings_max)
    /\ SpecTotalTimePasses(m, f)
    /\ SpecDietaryPasses(m, f)

\* C4 as stated: with has_filters() true, apply_metadata_filters returns
\* exactly the input results whose metadata satisfies every active
\* constraint, and applying the same filter to the output changes nothing.
\* Violated: a result without prep_time is kept under max_total_time, and a
\* result without metadata is dropped whatever the active constraints are.
C4_ExactlyPassing ==
    (fpc = "done" /\ ffilter.some /\ has_filters(ffilter.v)) =>
        /\ fout = SelectSeq(fresults,
                     LAMBDA r : SpecPasses(ExtractMetadata(r), ffilter.v))
        /\ apply_metadata_filters(fout, ffilter) = fout

\* the invariants the specification gives a RecipeFilter
RangeValid(min_val, max_val, config_min, config_max) ==
    /\ (min_val.some => (config_min <= min_val.v /\ min_val.v <= config_max))
    /\ (max_val.some => (config_min <= max_val.v /\ max_val.v <= config_max))
    /\ ((min_val.some /\ max_val.some) => min_val.v <= max_val.v)
ValidState(f) ==
    /\ RangeValid(f.prep_time_min, f.prep_time_max,
                  MIN_PREP_TIME_FILTER, MAX_PREP_TIME_FILTER)
    /\ RangeValid(f.cook_time_min, f.cook_time_max,
                  MIN_COOK_TIME_FILTER, MAX_COOK_TIME_FILTER)
    /\ RangeValid(f.servings_min, f.servings_max,
                  MIN_SERVINGS_FILTER, MAX_SERVINGS_FILTER)
    /\ (f.dietary_restrictions.some =>
           \A i \in 1..Len(f.dietary_restrictions.v) :
               Lower(f.dietary_restrictions.v[i]) \in SupportedLower)

\* C5 as stated: after any sequence of constructions and field operations
\* every existing RecipeFilter has min <= max, every bound inside its
\* configured range and every dietary restriction supported.
\* Violated: an attribute assignment on a built filter is not validated.
C5_NeverInvalid == cobj.some => ValidState(cobj.v)

\* the constructor arguments the claim calls invalid
ClaimInvalid(a) ==
    \/ ~ValidState(a)
    \/ (a.difficulty.some /\ a.difficulty.v \notin SUPPORTED_DIFFICULTIES)

\* C6 as stated: constructing a RecipeFilter with min > max, a bound out of
\* range, or an unsupported difficulty or dietary restriction raises and
\* yields no filter object.
\* Violated: the difficulty "" is not checked and the filter is built.
C6_InvalidRaises ==
    (cpc \in {"built", "raised"} /\ cmuts = 0 /\ ClaimInvalid(cargs)) =>
        (cpc = "raised" /\ ~cobj.some)

(***************************************************************************)
(* Properties of the single filter dimensions                              *)
(***************************************************************************)
Returned == fpc = "done" /\ ffilter.some
InOutput(r) == \E j \in 1..Len(fout) : fout[j] = r
\* number of range bounds the filter sets
RangeActive(f) ==
    \/ f.prep_time_min.some \/ f.prep_time_max.some
    \/ f.cook_time_min.some \/ f.cook_time_max.some
    \/ f.servings_min.some \/ f.servings_max.some
AllRangesPass(m, f) ==
    /\ SpecRangePasses(m, "prep_time", f.prep_time_min, f.prep_time_max)
    /\ SpecRangePasses(m, "cook_time", f.cook_time_min, f.cook_time_max)
    /\ SpecRangePasses(m, "servings", f.servings_min, f.servings_max)
OnlyRanges(f) ==
    /\ RangeActive(f)
    /\ ~f.difficulty.some /\ ~f.dietary_restrictions.some
    /\ ~f.max_total_time.some

\* C13: with a prep_time, cook_time or servings bound active, every kept
\* candidate has that field present, numeric and inside the inclusive
\* bounds, so a candidate whose field is missing or not a number is
\* rejected whatever its other fields hold; and when only range bounds are
\* active, a candidate with metadata whose fields lie inside the bounds
\* (a value equal to a bound included) is kept.
C13_RangeFailClosed ==
    Returned =>
        /\ \A j \in 1..Len(fout) :
              AllRangesPass(ExtractMetadata(fout[j]), ffilter.v)
        /\ OnlyRanges(ffilter.v) =>
              \A i \in 1..Len(fresults) :
                  (/\ ExtractMetadata(fresults[i]).keys /= {}
                   /\ AllRangesPass(ExtractMetadata(fresults[i]), ffilter.v))
                  => InOutput(fresults[i])

\* C13 witness: under a prep_time range 15..30 a candidate whose prep_time
\* equals the lower bound is kept, and candidates with a missing prep_time
\* and with other fields that are not numbers are in the input
C13_Witness ==
    /\ Returned
    /\ ffilter.v.prep_time_min = SomeI(15)
    /\ OnlyRanges(ffilter.v) /\ ~ffilter.v.cook_time_max.some
    /\ ~ffilter.v.servings_min.some
    /\ \E i \in 1..Len(fresults) : fresults[i].id = "r4"
    /\ \E j \in 1..Len(fout) :
          ToInt(ExtractMetadata(fout[j]).prep_time).v = 15

\* C14 as stated: with max_total_time active a candidate is kept only if
\* prep_time and cook_time are both present and numeric and their sum is
\* within the bound. Violated: a missing component is read as 0.
C14_TotalTimeBothPresent ==
    (Returned /\ ffilter.v.max_total_time.some) =>
        \A j \in 1..Len(fout) :
            SpecTotalTimePasses(ExtractMetadata(fout[j]), ffilter.v)

\* the decision of apply_metadata_filters on one candidate
Kept(r, flt) == apply_metadata_filters(<<r>>, flt) /= <<>>
WithDietary(f, restrictions) ==
    SomeFilter([f EXCEPT !.dietary_restrictions = restrictions])
\* the dietary dimension as the specification states it
DietaryHolds(text, R) ==
    \E i \in 1..Len(R) :
        \/ Contains(text, Lower(R[i]))
        \/ /\ Lower(R[i]) = S_vegetarian
           /\ \A kw \in {S_meat, S_chicken, S_beef} : ~Contains(text, kw)
        \/ /\ Lower(R[i]) = S_vegan
           /\ \A kw \in {S_meat, S_chicken, S_beef,
                         S_cheese, S_milk, S_egg, S_butter} :
                 ~Contains(text, kw)

\* C15: with a non-empty list R of dietary restrictions, a candidate with
\* metadata is kept iff it is kept without the dietary dimension and at
\* least one restriction of R is satisfied; and no kept candidate is
\* removed by adding one more restriction to R.
C15_DietaryAnyOf ==
    (Returned /\ TruthyL(ffilter.v.dietary_restrictions)) =>
        LET R == ffilter.v.dietary_restrictions.v
        IN  /\ \A i \in 1..Len(fresults) :
                  LET r == fresults[i]
                      m == ExtractMetadata(r)
                  IN  m.keys /= {} =>
                        (InOutput(r) <=>
                            /\ Kept(r, WithDietary(ffilter.v, SomeL(<<>>)))
                            /\ DietaryHolds(RecipeText(m), R))
            /\ \A x \in 1..Len(SUPPORTED_DIETARY_RESTRICTIONS) :
                  \A j \in 1..Len(fout) :
                      Kept(fout[j],
                           WithDietary(ffilter.v,
                              SomeL(Append(R, SUPPORTED_DIETARY_RESTRICTIONS[x]))))

\* C15 witness: two restrictions are requested and a kept candidate
\* satisfies one of them but not the other
C15_Witness ==
    /\ Returned
    /\ ffilter.v.dietary_restrictions.some
    /\ Len(ffilter.v.dietary_restrictions.v) = 2
    /\ \E j \in 1..Len(fout) :
          LET text == RecipeText(ExtractMetadata(fout[j]))
          IN  /\ DietaryHolds(text, <<ffilter.v.dietary_restrictions.v[1]>>)
              /\ ~DietaryHolds(text, <<ffilter.v.dietary_restrictions.v[2]>>)

\* C16: called with no filter, or with a RecipeFilter every field of which
\* is None, apply_metadata_filters returns its input list: the same
\* elements in the same order, results without metadata included.
C16_NoFilterUnchanged ==
    (fpc = "done" /\ (~ffilter.some \/ ffilter.v = EmptyFilterFields)) =>
        fout = fresults

\* C16 witness: a default RecipeFilter and an input holding a result
\* without metadata
C16_Witness ==
    /\ fpc = "done"
    /\ ffilter.some /\ ffilter.v = EmptyFilterFields
    /\ Len(fresults) >= 2
    /\ fresults[1].id = "r3"
    /\ fout = fresults

\* the same metadata carried the dense way and the sparse way (a hybrid
\* result carries it under 'recipe' as a sparse result does)
DenseShaped(id, m) == [id |-> id, metadata |-> SomeDict(m), recipe |-> NoDict]
SparseShaped(id, m) == [id |-> id, metadata |-> NoDict, recipe |-> SomeDict(m)]

\* C17: the decision for a candidate depends only on its metadata and the
\* filter: the candidate as given, the same metadata in a dense-shaped
\* result and the same metadata in a sparse-shaped (or hybrid) result are
\* all kept or all rejected.
C17_PathAgnostic ==
    Returned =>
        \A i \in 1..Len(fresults) :
            LET r == fresults[i]
                m == IF TruthyDict(r.metadata) THEN r.metadata.v
                     ELSE IF r.recipe.some THEN r.recipe.v ELSE EmptyDict
            IN  /\ InOutput(r) <=> Kept(DenseShaped(r.id, m), ffilter)
                /\ InOutput(r) <=> Kept(SparseShaped(r.id, m), ffilter)

\* C17 witness: a sparse-shaped and a dense-shaped candidate went through
\* one filter that kept the sparse-shaped one and rejected the other
C17_Witness ==
    /\ Returned /\ has_filters(ffilter.v)
    /\ \E i \in 1..Len(fresults) :
          fresults[i].id = "r2" /\ InOutput(fresults[i])
    /\ \E i \in 1..Len(fresults) :
          fresults[i].id = "r1" /\ ~InOutput(fresults[i])

(***************************************************************************)
(* Filtering after fusion                                                  *)
(***************************************************************************)
\* the fused ranked list of the candidates the two searches ranked, with the
\* rrf contributions of the positions in those unfiltered lists
UnfilteredRanked ==
    FuseRanked(SparseListOf(sparse_ranked), DenseListOf(dense_ranked),
               sparse_weight, dense_weight)

\* C12 as stated: the result of hybrid search is the fused ranked list of
\* the unfiltered candidate lists without the candidates that fail the
\* filter, cut to n_results: the rrf contributions are computed from the
\* positions in the unfiltered lists, survivors keep their fused order, and
\* at most n_results are returned.
\* Violated: both component searches are handed the filter and apply it, so
\* the lists that are fused hold the passing candidates only and a
\* candidate ranked below a failing one moves up before its rrf
\* contribution is computed.
C12_FilterAfterFusion ==
    Fused =>
        result = Truncate(apply_metadata_filters(UnfilteredRanked, filters),
                          n_results)

(***************************************************************************)
(* Properties of the dense search                                          *)
(***************************************************************************)
DenseDone == dpc = "done"
\* the threshold the caller asked for: min_similarity, or the default when
\* the argument was not given
RequestedThreshold ==
    IF dargs.min_similarity.some THEN dargs.min_similarity.v
    ELSE 100 - SIMILARITY_THRESHOLD

\* C11 as stated: a search call with n_results <= 0 is rejected with an
\* error, is not answered with a result list, and its n_results is not
\* replaced by a default count.
\* Violated: n_results = 0 is falsy and becomes DEFAULT_SEARCH_LIMIT.
C11_NonPositiveRejected ==
    (DenseDone /\ dargs.n_results.some /\ dargs.n_results.v <= 0) =>
        /\ doutcome /= "ok"
        /\ dlimit = dargs.n_results.v
        /\ dembed = "not_called" /\ dstore = "not_called"

\* the hits whose 1 - distance, taken exactly, reaches the requested threshold
ExactlyAbove ==
    SelectSeq(dhits, LAMBDA h : 100 - h.distance >= RequestedThreshold)

\* C18 as stated: search_recipes returns exactly the hits with
\* 1 - distance >= min_similarity, in the store's order, sorted by
\* descending similarity, every similarity in [0, 1].
\* Violated: min_similarity = 0 is falsy and the default threshold applies;
\* a hit whose 1 - distance equals the threshold is dropped when the
\* subtraction rounds below it.
C18_ExactlyAboveThreshold ==
    (DenseDone /\ doutcome = "ok") =>
        /\ Len(dout) = Len(ExactlyAbove)
        /\ \A j \in 1..Len(dout) :
              /\ dout[j].id = ExactlyAbove[j].id
              /\ dout[j].similarity.h = 100 - ExactlyAbove[j].distance
        /\ \A i \in 1..Len(dout) : \A j \in 1..Len(dout) :
              i < j => ~FloatLess(dout[i].similarity, dout[j].similarity)
        /\ \A i \in 1..Len(dout) :
              /\ ~FloatLess(dout[i].similarity, Float(0))
              /\ ~FloatLess(Float(100), dout[i].similarity)

\* C19: when the embedding call or the store query fails, search_recipes
\* raises VectorStoreError and returns no list; a list is returned only
\* when both calls succeeded.
C19_FailureRaised ==
    DenseDone =>
        /\ (dembed = "error" \/ dstore = "error") =>
              (doutcome = "VectorStoreError" /\ dout = <<>>)
        /\ doutcome = "ok" => (dembed = "ok" /\ dstore = "ok")
        /\ doutcome \in {"ok", "VectorStoreError"}

\* C19 witness: the embedding succeeded, the store query failed, and the
\* caller got VectorStoreError
C19_Witness ==
    /\ DenseDone
    /\ dargs.n_results = SomeI(2)
    /\ dembed = "ok" /\ dstore = "error"
    /\ doutcome = "VectorStoreError"

(***************************************************************************)
(* Properties of the sparse search                                         *)
(***************************************************************************)
KeywordSet(keywords) == {keywords[i] : i \in 1..Len(keywords)}
\* no document of the index that the query read holds a query keyword
NoSharedTerm ==
    \A i \in 1..Len(sview["bm25_index"].v) :
        KeywordSet(sview["bm25_index"].v[i])
            \cap KeywordSet(extract_query_keywords(squery)) = {}

\* C20 as stated: a sparse search on an index that was never built or is
\* empty, with a query that tokenizes to zero terms, or with a query no
\* indexed document shares a term with, returns an empty list and not an
\* error.
\* Violated: a search that finds no index builds it from the collection and
\* answers from the index it built.
C20_SparseEmptyNotError ==
    (/\ spc = "done"
     /\ \/ sfound.gen = 0
        \/ sview["bm25_index"].v = <<>>
        \/ extract_query_keywords(squery) = <<>>
        \/ NoSharedTerm) =>
        (soutcome = "ok" /\ sout = <<>>)


(***************************************************************************)
(* Properties of a dense call that does not respond                        *)
(***************************************************************************)
\* C22 as stated: a search that dispatched its retrieval calls eventually
\* returns, also when the dense call never responds.
\* Violated: nothing ends a dense call that does not respond, and the
\* search waits for it.
C22_DenseTimeoutReturns ==
    (pc = "retrieving") ~> (pc = "done")


(***************************************************************************)
(* Properties of keyword extraction                                        *)
(***************************************************************************)
\* the maximal runs of ASCII letters and digits of a text, in text order
RunStarts(text) ==
    { i \in 1..Len(text) :
        IsAlnum(text[i]) /\ (i = 1 \/ ~IsAlnum(text[i - 1])) }
RunEnd(text, i) ==
    CHOOSE j \in i..Len(text) :
        /\ \A k \in i..j : IsAlnum(text[k])
        /\ (j = Len(text) \/ ~IsAlnum(text[j + 1]))
RECURSIVE RunsFrom(_, _)
RunsFrom(text, i) ==
    IF i > Len(text) THEN <<>>
    ELSE IF i \in RunStarts(text)
         THEN <<SubSeq(text, i, RunEnd(text, i))>> \o RunsFrom(text, i + 1)
         ELSE RunsFrom(text, i + 1)

LowerAll(words) == [i \in 1..Len(words) |-> Lower(words[i])]
Surviving(token) ==
    Len(token) >= MIN_KEYWORD_LENGTH /\ token \notin COOKING_STOPWORDS

\* every returned token is non-empty, made of lower-case ASCII letters and
\* digits only, and not a stopword
CleanTokens(tokens) ==
    \A i \in 1..Len(tokens) :
        /\ tokens[i] /= <<>>
        /\ \A k \in 1..Len(tokens[i]) :
              \/ \E l \in 1..26 : LowerChars[l] = tokens[i][k]
              \/ \E d \in 1..10 : DigitChars[d] = tokens[i][k]
        /\ tokens[i] \notin COOKING_STOPWORDS

\* C23 as stated: the keywords are the lower-cased surviving runs of ASCII
\* letters and digits of the query text itself.
C23_Original ==
    kpc = "query" =>
        /\ kkeywords = SelectSeq(LowerAll(RunsFrom(ktext, 1)), Surviving)
        /\ CleanTokens(kkeywords)

\* C23 (amended): the keywords are, in order and with duplicates, the
\* surviving runs of ASCII letters and digits of the LOWER-CASED text (a
\* character outside ASCII whose lower case is an ASCII letter is part of a
\* run); every returned token is non-empty, lower-case alphanumeric and not
\* a stopword.
C23_KeywordsOfLoweredText ==
    kpc = "query" =>
        /\ kkeywords = SelectSeq(RunsFrom(Lower(ktext), 1), Surviving)
        /\ CleanTokens(kkeywords)

\* a query with an upper-case letter from which a token was dropped and a
\* token was kept
C23_Witness ==
    /\ kpc = "query"
    /\ \E i \in 1..Len(ktext) : ktext[i] = "T"
    /\ kkeywords /= <<>>
    /\ Len(tokenize_text(ktext)) > Len(kkeywords)

\* the text pieces of a recipe: title, ingredients, instructions
Pieces(recipe) == <<recipe.title>> \o recipe.ingredients \o recipe.instructions
\* a document whose only text is the given text
DocumentOf(text) == [title |-> <<>>, ingredients |-> <<text>>, instructions |-> <<>>]

\* C24: indexing and querying keep the same tokens: a text yields the same
\* keyword list as a query and as the only text of a document, and the
\* keywords of a document are exactly the keywords its title, ingredients
\* and instructions yield as queries.
C24_SameTokenizer ==
    /\ kpc = "query" => extract_recipe_keywords(DocumentOf(ktext)) = kkeywords
    /\ kpc = "corpus" =>
          \A i \in 1..Len(krecipes) :
              KeywordSet(kcorpus[i]) =
                 UNION { KeywordSet(extract_query_keywords(Pieces(krecipes[i])[j])) :
                           j \in 1..Len(Pieces(krecipes[i])) }

\* a query with an upper-case letter, a one-character token and a kept token
C24_Witness ==
    /\ kpc = "query"
    /\ Len(kkeywords) = 1
    /\ \E i \in 1..Len(ktext) : ktext[i] = "T"
    /\ \E i \in 1..Len(tokenize_text(ktext)) : Len(tokenize_text(ktext)[i]) = 1

\* occurrences of a token in a token list
CountIn(w, tokens) == Cardinality({ j \in 1..Len(tokens) : tokens[j] = w })
\* occurrences of a token in the tokens of each text of a list, summed
RECURSIVE CountInTexts(_, _)
CountInTexts(w, texts) ==
    IF texts = <<>> THEN 0
    ELSE CountIn(w, tokenize_text(Head(texts))) + CountInTexts(w, Tail(texts))

\* every token of the recipe's texts and of its keyword list
TokensOf(recipe, keywords) ==
    KeywordSet(keywords) \cup
    UNION { KeywordSet(tokenize_text(Pieces(recipe)[j])) :
              j \in 1..Len(Pieces(recipe)) }

\* C25: build_recipe_corpus returns one keyword list per recipe in input
\* order; in it a surviving token occurs 2 x (count in the title) + (count
\* in the ingredients) + (count in the instructions) times, and a token
\* that does not survive does not occur.
C25_TitleCountedTwice ==
    kpc = "corpus" =>
        /\ Len(kcorpus) = Len(krecipes)
        /\ \A i \in 1..Len(krecipes) :
              \A w \in TokensOf(krecipes[i], kcorpus[i]) :
                  CountIn(w, kcorpus[i]) =
                     IF Surviving(w)
                     THEN 2 * CountIn(w, tokenize_text(krecipes[i].title))
                          + CountInTexts(w, krecipes[i].ingredients)
                          + CountInTexts(w, krecipes[i].instructions)
                     ELSE 0

\* two different recipes, the first with "too" twice from the title, once
\* from an ingredient and once from an instruction
C25_Witness ==
    /\ kpc = "corpus"
    /\ Len(krecipes) = 2
    /\ krecipes[1] /= krecipes[2]
    /\ CountIn(<<"t","o","o">>, tokenize_text(krecipes[1].title)) = 1
    /\ CountIn(<<"t","o","o">>, kcorpus[1]) = 4


(***************************************************************************)
(* Properties of the dispatch of the component searches                    *)
(***************************************************************************)
\* C26: a search with a positive n_results and a non-blank query has called
\* the sparse search and the dense search exactly once each, both with the
\* caller's query, with twice the caller's n_results (20 for 10) and with
\* the caller's filter object as it was passed in.
C26_ComponentCalls ==
    (pc \in {"retrieving", "done"} /\ n_results > 0 /\ ~Blank(query)) =>
        /\ sparse_calls = 1
        /\ dense_calls = 1
        /\ sparse_args = [query |-> query, n_results |-> 2 * n_results,
                          filters |-> filters]
        /\ dense_args = sparse_args
        /\ (n_results = 10 => dense_args.n_results = 20)

\* a finished search with the default n_results and a filter
C26_Witness ==
    /\ pc = "done"
    /\ outcome = "ok"
    /\ n_results = 10
    /\ filters = SomeFilter(BeginnerFilter)
    /\ sparse_args.n_results = 20
    /\ sparse_args.filters = SomeFilter(BeginnerFilter)
    /\ result /= <<>>


(***************************************************************************)
(* Properties of add_recipes                                               *)
(***************************************************************************)
\* the id the caller supplied, or that was generated, for a recipe of the batch
IdOfRecipe(recipe) ==
    aids.v[CHOOSE i \in 1..Len(arecipes) : arecipes[i] = recipe]

\* C27: when add_recipes succeeds, the stored documents are those of the
\* embedded recipes, each stored under the id of that same recipe, and the
\* returned list names exactly the stored recipes.
C27_StoredUnderOwnId ==
    (apc = "add_recipes" /\ aoutcome = "ok") =>
        /\ Len(astored) = Len(aembedded)
        /\ \A i \in 1..Len(astored) :
              /\ astored[i].recipe = aembedded[i]
              /\ astored[i].id = IdOfRecipe(astored[i].recipe)
        /\ areturned = [i \in 1..Len(aembedded) |-> IdOfRecipe(aembedded[i])]


(***************************************************************************)
(* Properties of the user collection limit                                 *)
(***************************************************************************)
\* C28: the collection never holds more than MAX_USER_RECIPES recipes, and
\* a call that began with the collection at the limit has raised the limit
\* error.
C28_LimitHolds ==
    /\ ustored <= MAX_USER_RECIPES
    /\ \A p \in Callers :
          (upc[p] = "done" /\ ustart[p] >= MAX_USER_RECIPES) =>
              uoutcome[p] = "limit_error"


(***************************************************************************)
(* Properties of validate_filter_ranges                                    *)
(***************************************************************************)
\* C29: validate_filter_ranges accepts the ranges exactly when RecipeFilter
\* built with the same minima and maxima is constructed without error.
C29_SameVerdict ==
    rpc = "done" => (rvalid = "True" <=> rctor = "built")

\* a prep_time range whose bounds each lie within the configured limits but
\* whose minimum exceeds its maximum: both raise
C29_Witness ==
    /\ rpc = "done"
    /\ rargs[1].some /\ ~rargs[2].some /\ ~rargs[3].some
    /\ rargs[1].min = 30 /\ rargs[1].max = 10
    /\ rvalid = "raised" /\ rctor = "raised"


(***************************************************************************)
(* Properties of the similarity threshold of the dense search              *)
(***************************************************************************)
\* the hits with similarity >= t, in the store's order
HitsAbove(t) == SelectSeq(dhits, LAMBDA h : ~FloatLess(OneMinus(h.distance), t))
\* the returned list is what the threshold t leaves of the hits
ThresholdApplied(t) ==
    dout = [j \in 1..Len(HitsAbove(t)) |->
               [id |-> HitsAbove(t)[j].id,
                similarity |-> OneMinus(HitsAbove(t)[j].distance)]]

\* C30: a min_similarity of 0 is treated as not given, the threshold applied
\* is the default 1 - SIMILARITY_THRESHOLD; for every other min_similarity
\* the threshold applied is the caller's value.
C30_ZeroIsDefault ==
    (DenseDone /\ doutcome = "ok" /\ dargs.min_similarity.some) =>
        IF dargs.min_similarity.v = 0
        THEN ThresholdApplied(OneMinus(SIMILARITY_THRESHOLD))
        ELSE ThresholdApplied(Float(dargs.min_similarity.v))

\* the caller asked for threshold 0 and a hit of similarity 0.25 was dropped
\* while a nearer hit was returned
C30_Witness ==
    /\ DenseDone /\ doutcome = "ok"
    /\ dargs.min_similarity = SomeI(0)
    /\ \E i \in 1..Len(dhits) : dhits[i].distance = 75
    /\ Len(dout) = 1
    /\ Len(dhits) = 2

====
